---- MODULE Spec2Model ----
(***************************************************************************)
(* SnowFS repository state machine (src/src/repository.ts): commits,       *)
(* references, HEAD, the index, the object database records and the        *)
(* working directory, with createCommit, checkout, the reference mutators, *)
(* open and initExt translated step by step from the promise chains.       *)
(***************************************************************************)
EXTENDS Integers, Sequences, FiniteSets, TLC

(* ------------------------------ bounds -------------------------------- *)
\* number of commits createCommit may create in one behaviour
MaxCommits == 3
\* number of operations one behaviour may start: calls of the repository
\* that pass their argument checks, index calls and edits of the working
\* directory (a rejected call changes nothing and is not counted)
MaxOps == 5
\* largest number N, M used in the expressions HEAD~N and HEAD~N~M
MaxWalk == 3
\* largest number of 100 MB blocks of a hashed file
MaxBlocks == 3
\* largest length of a path string handed to normalize
MaxPathLen == 3
\* largest number of lines of the user ignore file
MaxLines == 2

(* --------------------------- value universes -------------------------- *)
\* relative paths of the working directory; "b.log" is matched by the
\* built-in ignore pattern **/*.log
Paths == {"a.txt", "b.log"}
\* content hashes of files; 0 stands for "no file / no entry"
Contents == {1, 2}
\* names handed to createNewReference / setHead / deleteReference / checkout
RefNames == {"Main", "feat"}
\* undefined / null hash
NoHash == ""
\* hash of a Commit object that was not created by this repository
ForeignHash == "cX"
\* the i-th commit hash handed out by the Commit constructor
HashOf(i) == "c" \o ToString(i)
CommitHashes == {HashOf(i) : i \in 1..(MaxCommits + 1)}

EmptyTree == [p \in Paths |-> 0]
Trees == [Paths -> Contents \cup {0}]
NoCommit == [hash |-> NoHash, message |-> "", root |-> EmptyTree, parents |-> <<>>]
NoRef == [name |-> "", hash |-> NoHash, start |-> NoHash]

\* RESET flags, repository.ts
RESET_NONE == 0
DELETE_MODIFIED_FILES == 1
DELETE_NEW_FILES == 2
RESTORE_DELETED_FILES == 4
DETACH == 8
RESET_DEFAULT == 7
\* STATUS and FILTER flags, repository.ts
UNMODIFIED == 0
WT_NEW == 128
WT_MODIFIED == 256
WT_DELETED == 512
INCLUDE_UNTRACKED == 1
INCLUDE_UNMODIFIED == 4
\* bit test "reset & flag" for a single-bit flag
HasFlag(reset, flag) == (reset \div flag) % 2 = 1

VARIABLES
  commits,      \* Repository.commits: sequence of Commit
  commitMap,    \* Repository.commitMap: hash -> Commit
  references,   \* Repository.references: sequence of Reference
  head,         \* Repository.head: [name, hash]
  index,        \* the index handed to createCommit
  odbCommits,   \* persisted commit records (sequence of Commit)
  odbHead,      \* persisted HEAD record: reference name, raw hash or ""
  odbRefs,      \* persisted reference records (sequence, unique names)
  storeExists,  \* the commondir exists
  opened,       \* a Repository instance was returned by initExt or open
  workdir,      \* working directory: path -> content hash (0 = absent)
  pc,           \* position inside the running operation, "idle" if none
  op,           \* arguments and locals of the running / last operation
  trace,        \* effects performed so far by the running / last operation
  lastError,    \* error the last operation failed with, "" if none
  nextHash,     \* number of Commit objects constructed so far
  ops           \* number of operations started so far

vars == <<commits, commitMap, references, head, index, odbCommits, odbHead,
          odbRefs, storeExists, opened, workdir, pc, op, trace,
          lastError, nextHash, ops>>

memVars == <<commits, commitMap, references, head>>
odbVars == <<odbCommits, odbHead, odbRefs>>

(* ------------------------------ helpers ------------------------------- *)
Ev(kind, path) == [ev |-> kind, path |-> path]

FreshIndex == [addRelPaths |-> {}, deleteRelPaths |-> {},
               processedMap |-> EmptyTree, valid |-> TRUE]

\* arguments and locals of calculateFileHash and compareFileHash: the file
\* (size in bytes, content of each 100 MB range), the block ranges, the
\* block hashes received so far, the tasks still running, the result of
\* calculateFileHash and the arguments and result of compareFileHash
NoHashing == [size |-> 0, data |-> <<>>, blocks |-> <<>>, hashes |-> <<>>, pending |-> {},
              filehash |-> "", hashBlocks |-> <<>>, hasBlocks |-> FALSE,
              expected |-> <<>>, hasExpected |-> FALSE, expectedHash |-> "",
              changed |-> {}, equal |-> FALSE]

\* an IoContext and the machine it runs on: the platform, the drives that
\* drivelist reports (mountpoint path and what the platform tells about the
\* file system), the fields set by init, the arguments of copyFile, the size
\* of the source file, whether the block-clone script is installed, and the
\* copy calls made
\* for performWriteLockChecks: the directory, the relative paths, the file
\* handles the open-files utility lists and its exit code, the output received
\* so far (counted in handles) and the errors collected
NoIo == [platform |-> "", drives |-> <<>>, valid |-> FALSE, mountpoints |-> <<>>,
         src |-> "", dst |-> "", size |-> 0, script |-> FALSE, calls |-> <<>>,
         dir |-> "", relPaths |-> <<>>, listing |-> <<>>, code |-> 0,
         received |-> 0, errors |-> <<>>]

\* an IgnoreManager: which of the two classes it is, the lines of the user
\* ignore file, the fields filled by loadFile (patterns) or by init (ignores,
\* includes), whether the file was loaded, and the answer of ignored(arg)
NoIgnore == [manager |-> "", lines |-> <<>>, loaded |-> FALSE, patterns |-> <<>>,
             ignores |-> <<>>, includes |-> <<>>, ignored |-> FALSE]

NoOp == [kind |-> "none", commit |-> NoCommit, ref |-> NoRef, reset |-> 0,
         idx |-> FreshIndex, items |-> {}, pending |-> {}, failed |-> FALSE,
         result |-> "", arg |-> "", filter |-> 0, ignoreFile |-> FALSE, status |-> {},
         h |-> NoHashing, io |-> NoIo, ig |-> NoIgnore]

\* variant that knows every hash
commitMapHasAlways(h) == TRUE
\* this.commitMap.has(hash)
commitMapHas(h) == h \in DOMAIN commitMap
\* this.commitMap.get(hash); NoCommit stands for undefined
commitMapGet(h) == IF h \in DOMAIN commitMap THEN commitMap[h] ELSE NoCommit
\* variant that does not register the commit
commitMapSetNothing(h, c) == commitMap
\* this.commitMap.set(hash, commit)
commitMapSet(h, c) == [k \in (DOMAIN commitMap) \cup {h} |-> IF k = h THEN c ELSE commitMap[k]]

\* this.references.find(r => r.getName() === name); NoRef stands for undefined
findRef(refs, name) ==
  LET hits == SelectSeq(refs, LAMBDA r : r.name = name)
  IN IF Len(hits) > 0 THEN hits[1] ELSE NoRef

findReferenceByName(name) == findRef(references, name)
filterReferenceByHash(h) == SelectSeq(references, LAMBDA r : r.hash = h)
getCommitByHead == commitMapGet(head.hash)

\* TreeDir.getAllTreeFiles: the paths recorded in a tree
TreePaths(tree) == {p \in Paths : tree[p] # 0}
\* files present in the working directory
WorkFiles == {p \in Paths : workdir[p] # 0}

\* Odb.writeHeadReference: the value stored in the HEAD record
HeadRecord(h) == IF h.name = "HEAD" THEN h.hash ELSE h.name
\* Odb.writeReference: replace the record of that name or add one
writeReference(recs, r) ==
  IF \E i \in 1..Len(recs) : recs[i].name = r.name
    THEN [i \in 1..Len(recs) |-> IF recs[i].name = r.name THEN r ELSE recs[i]]
    ELSE Append(recs, r)
\* Odb.deleteReference: drop the record of that name
odbDeleteReference(recs, name) == SelectSeq(recs, LAMBDA r : r.name # name)

\* IgnoreManager.ignored for the built-in pattern **/*.log, the only built-in
\* pattern that matches a path of Paths
ignored(p) == Len(p) >= 4 /\ SubSeq(p, Len(p) - 3, Len(p)) = ".log"

(* ------------------------------- Init --------------------------------- *)
Init ==
  /\ commits = <<>>
  /\ commitMap = [h \in {} |-> NoCommit]
  /\ references = <<>>
  /\ head = [name |-> "HEAD", hash |-> NoHash]
  /\ index = FreshIndex
  /\ odbCommits = <<>>
  /\ odbHead = ""
  /\ odbRefs = <<>>
  /\ storeExists = FALSE
  /\ opened = FALSE
  /\ workdir \in Trees
  /\ pc = "idle"
  /\ op = NoOp
  /\ trace = <<>>
  /\ lastError = ""
  /\ nextHash = 0
  /\ ops = 0

\* an operation ends with an error: the promise rejects
Fail(err) == /\ pc' = "failed" /\ lastError' = err /\ ops' = ops
\* an operation passed its argument checks
Started == ops' = ops + 1
\* an operation starts
Begin(o) == op' = o

(* ---------------------------- createCommit ---------------------------- *)
\* variant that leaves the paths of deleteRelPaths in the tree
createCommitTreeKeepDeleted(idx) ==
  LET headTree == getCommitByHead.root
  IN IF head.hash # NoHash
       THEN [p \in Paths |-> IF headTree[p] # 0 THEN headTree[p] ELSE idx.processedMap[p]]
       ELSE idx.processedMap
\* lines 863-890: processedMap seeded from the index, overlaid by the HEAD
\* commit's tree, built into a tree, deleteRelPaths removed
createCommitTree(idx) ==
  LET headTree == getCommitByHead.root
      processedMap == IF head.hash # NoHash
                        THEN [p \in Paths |-> IF headTree[p] # 0 THEN headTree[p] ELSE idx.processedMap[p]]
                        ELSE idx.processedMap
  IN [p \in Paths |-> IF p \in idx.deleteRelPaths THEN 0 ELSE processedMap[p]]

\* variant that forgets the earlier commits
createCommitMemReplace(commit) ==
  /\ commits' = <<commit>>
  /\ commitMap' = [h \in {commit.hash} |-> commit]
  /\ IF head.hash # NoHash
       THEN /\ head' = [head EXCEPT !.hash = commit.hash]
            /\ UNCHANGED references
       ELSE /\ head' = [name |-> "Main", hash |-> commit.hash]
            /\ references' = Append(references, [name |-> "Main", hash |-> commit.hash, start |-> commit.hash])
\* lines 908-917: the in-memory mutation of createCommit
createCommitMem(commit) ==
  /\ commits' = Append(commits, commit)
  /\ commitMap' = commitMapSet(commit.hash, commit)
  /\ IF head.hash # NoHash
       THEN /\ head' = [head EXCEPT !.hash = commit.hash]
            /\ UNCHANGED references
       ELSE /\ head' = [name |-> "Main", hash |-> commit.hash]
            /\ references' = Append(references, [name |-> "Main", hash |-> commit.hash, start |-> commit.hash])

\* the body of createCommit up to the call of Odb.writeCommit (lines 850-919)
createCommitBody(idx, isNull, message, allowEmpty, kind, logged) ==
  /\ nextHash < MaxCommits
  /\ ops < MaxOps
  /\ LET o == [NoOp EXCEPT !.kind = kind, !.idx = idx] IN
     IF ~allowEmpty /\ isNull
       THEN \* index.addRelPaths of null
            /\ Begin(o) /\ Fail("TypeError") /\ trace' = logged
            /\ UNCHANGED <<memVars, index, nextHash>>
     ELSE IF ~allowEmpty /\ idx.addRelPaths = {} /\ idx.deleteRelPaths = {}
       THEN /\ Begin(o) /\ Fail("NothingToCommit") /\ trace' = logged
            /\ UNCHANGED <<memVars, index, nextHash>>
     ELSE IF head.hash # NoHash /\ ~commitMapHas(head.hash)
       THEN \* headCommit.root of undefined
            /\ Begin(o) /\ Fail("TypeError") /\ trace' = logged
            /\ UNCHANGED <<memVars, index, nextHash>>
     ELSE IF ~idx.valid
       THEN \* index.invalidate() rejects on an invalidated index
            /\ Begin(o) /\ Fail("IndexInvalidated") /\ trace' = logged
            /\ UNCHANGED <<memVars, index, nextHash>>
     ELSE LET commit == [hash |-> HashOf(nextHash + 1), message |-> message,
                         root |-> createCommitTree(idx), parents |-> <<head.hash>>]
          IN /\ Begin([o EXCEPT !.commit = commit])
             /\ lastError' = ""
             /\ index' = IF isNull THEN index ELSE [idx EXCEPT !.valid = FALSE]
             /\ nextHash' = nextHash + 1
             /\ Started
             /\ createCommitMem(commit)
             /\ trace' = Append(logged, Ev("mem", ""))
             /\ pc' = "cc_writeCommit"

createCommit(isNull, message, allowEmpty) ==
  /\ pc = "idle" /\ opened
  /\ createCommitBody(IF isNull THEN FreshIndex ELSE index, isNull, message, allowEmpty, "createCommit", <<>>)
  /\ UNCHANGED <<odbVars, storeExists, opened, workdir>>

\* variant that goes on with the reference record, skipping the HEAD record
createCommitWriteCommitThenRef ==
  /\ pc = "cc_writeCommit"
  /\ odbCommits' = IF \E i \in 1..Len(odbCommits) : odbCommits[i].hash = op.commit.hash
                     THEN odbCommits ELSE Append(odbCommits, op.commit)
  /\ trace' = Append(trace, Ev("writeCommit", ""))
  /\ pc' = "cc_writeRef"
  /\ UNCHANGED <<memVars, index, odbHead, odbRefs, storeExists, opened,
                 workdir, op, lastError, nextHash, ops>>
\* lines 919-920: Odb.writeCommit resolves
createCommitWriteCommit ==
  /\ pc = "cc_writeCommit"
  /\ odbCommits' = IF \E i \in 1..Len(odbCommits) : odbCommits[i].hash = op.commit.hash
                     THEN odbCommits ELSE Append(odbCommits, op.commit)
  /\ trace' = Append(trace, Ev("writeCommit", ""))
  /\ pc' = "cc_writeHead"
  /\ UNCHANGED <<memVars, index, odbHead, odbRefs, storeExists, opened,
                 workdir, op, lastError, nextHash, ops>>

\* lines 921-925: HEAD.hash is set again and Odb.writeHeadReference resolves
createCommitWriteHead ==
  /\ pc = "cc_writeHead"
  /\ head' = [head EXCEPT !.hash = op.commit.hash]
  /\ odbHead' = HeadRecord(head')
  /\ trace' = Append(trace, Ev("writeHead", ""))
  /\ pc' = "cc_writeRef"
  /\ UNCHANGED <<commits, commitMap, references, index, odbCommits, odbRefs,
                 storeExists, opened, workdir, op, lastError, nextHash, ops>>

\* lines 926-928: Odb.writeReference(this.head) resolves
createCommitWriteRef ==
  /\ pc = "cc_writeRef"
  /\ odbRefs' = writeReference(odbRefs, [name |-> head.name, hash |-> head.hash, start |-> NoHash])
  /\ trace' = Append(trace, Ev("writeRef", ""))
  /\ pc' = "cc_writeLog"
  /\ UNCHANGED <<memVars, index, odbCommits, odbHead, storeExists, opened,
                 workdir, op, lastError, nextHash, ops>>

\* lines 929-930: Log.writeLog resolves and createCommit returns the commit
createCommitWriteLog ==
  /\ pc = "cc_writeLog"
  /\ trace' = Append(trace, Ev("log", ""))
  /\ pc' = "done"
  /\ UNCHANGED <<memVars, index, odbCommits, odbHead, odbRefs, storeExists, opened,
                 workdir, op, lastError, nextHash, ops>>

\* one of the four store writes of createCommit rejects: the chain is abandoned;
\* initExt then returns no repository
createCommitStoreFail ==
  /\ pc \in {"cc_writeCommit", "cc_writeHead", "cc_writeRef", "cc_writeLog"}
  /\ Fail("IoError")
  /\ opened' = IF op.kind = "initExt" THEN FALSE ELSE opened
  /\ UNCHANGED <<memVars, index, odbVars, storeExists, workdir, op, trace, nextHash, ops>>

(* ------------------------------ initExt ------------------------------- *)
\* lines 1031-1070 without the commondir option: the store and the log are
\* created, the init entry is logged, createCommit(null, 'Created Project',
\* {allowEmpty: true}) runs
initExt ==
  /\ pc = "idle" /\ ~storeExists /\ ~opened
  /\ storeExists' = TRUE
  /\ opened' = TRUE
  /\ createCommitBody(FreshIndex, TRUE, "Created Project", TRUE, "initExt", <<Ev("log", "")>>)
  /\ UNCHANGED <<odbCommits, odbHead, odbRefs, workdir>>

COMMONDIR_ERROR == "commondir must be outside repository"
(* -------------------------------- open -------------------------------- *)
\* variant that always detaches
headRefDetached ==
  [name |-> "HEAD", hash |-> IF odbHead = "" THEN odbRefs[1].name ELSE odbHead]
\* lines 994-1015: the HEAD that open derives from the stored HEAD record and
\* the stored references: the reference of that name, else a detached HEAD
\* whose hash is the record itself
headRef ==
  LET hashOrRefName == IF odbHead = "" THEN odbRefs[1].name ELSE odbHead
      found == findRef(odbRefs, hashOrRefName)
  IN  IF found # NoRef THEN [name |-> found.name, hash |-> found.hash]
                       ELSE [name |-> "HEAD", hash |-> hashOrRefName]

\* lines 983-1018 on a fresh Repository object; also the restart after a crash
open ==
  /\ storeExists
  /\ ops < MaxOps
  /\ op' = [NoOp EXCEPT !.kind = "open"]
  /\ trace' = <<>>
  /\ IF odbHead = "" /\ Len(odbRefs) = 0
       THEN /\ Fail("NoHead")
            /\ opened' = FALSE
            /\ UNCHANGED memVars
       ELSE    /\ commits' = odbCommits
               /\ commitMap' = [h \in {odbCommits[i].hash : i \in 1..Len(odbCommits)} |->
                                  (CHOOSE c \in {odbCommits[i] : i \in 1..Len(odbCommits)} : c.hash = h)]
               /\ references' = odbRefs
               /\ head' = headRef
               /\ lastError' = ""
               /\ pc' = "done"
               /\ opened' = TRUE
               /\ Started
  /\ UNCHANGED <<index, odbVars, storeExists, workdir, nextHash>>

(* -------------------------- findCommitByHash -------------------------- *)
\* position of the first '~' in s, 0 if there is none
TildePos(s) ==
  IF \E i \in 1..Len(s) : SubSeq(s, i, i) = "~"
    THEN CHOOSE i \in 1..Len(s) : SubSeq(s, i, i) = "~" /\ \A j \in 1..(i - 1) : SubSeq(s, j, j) # "~"
    ELSE 0

\* hash.split('~')
RECURSIVE Split(_)
Split(s) ==
  IF TildePos(s) = 0 THEN <<s>>
  ELSE <<SubSeq(s, 1, TildePos(s) - 1)>> \o Split(SubSeq(s, TildePos(s) + 1, Len(s)))

DigitChars == <<"0", "1", "2", "3", "4", "5", "6", "7", "8", "9">>
IsDigit(ch) == \E d \in 1..10 : DigitChars[d] = ch
DigitVal(ch) == (CHOOSE d \in 1..10 : DigitChars[d] = ch) - 1

\* value of the longest prefix of digits of s, read from position i on
RECURSIVE DigitsValue(_, _, _)
DigitsValue(s, i, acc) ==
  IF i > Len(s) \/ ~IsDigit(SubSeq(s, i, i)) THEN acc
  ELSE DigitsValue(s, i + 1, acc * 10 + DigitVal(SubSeq(s, i, i)))

\* parseInt(s, 10): optional sign, then the longest prefix of digits; NaN if
\* there is no digit
parseInt(s) ==
  LET signed == Len(s) > 0 /\ SubSeq(s, 1, 1) \in {"-", "+"}
      first == IF signed THEN 2 ELSE 1
      isNaN == first > Len(s) \/ ~IsDigit(SubSeq(s, first, first))
      magnitude == DigitsValue(s, first, 0)
  IN [nan |-> isNaN,
      value |-> IF isNaN THEN 0 ELSE IF signed /\ SubSeq(s, 1, 1) = "-" THEN 0 - magnitude ELSE magnitude]

\* variant that stops one parent early
RECURSIVE walkParentsShort(_, _)
walkParentsShort(commit, n) ==
  IF n <= 1 THEN [err |-> "", commit |-> commit]
  ELSE IF Len(commit.parents) = 0 THEN [err |-> "OutOfHistory", commit |-> NoCommit]
  ELSE IF commitMapGet(commit.parents[1]) = NoCommit THEN [err |-> "OutOfHistory", commit |-> NoCommit]
  ELSE walkParentsShort(commitMapGet(commit.parents[1]), n - 1)
\* lines 482-490: follow the first parent n times
RECURSIVE walkParents(_, _)
walkParents(commit, n) ==
  IF n <= 0 THEN [err |-> "", commit |-> commit]
  ELSE IF Len(commit.parents) = 0 THEN [err |-> "OutOfHistory", commit |-> NoCommit]
  ELSE IF commitMapGet(commit.parents[1]) = NoCommit THEN [err |-> "OutOfHistory", commit |-> NoCommit]
  ELSE walkParents(commitMapGet(commit.parents[1]), n - 1)

\* lines 474-492: the loop over the segments, commit being the loop variable
RECURSIVE walkSegments(_, _, _)
walkSegments(segs, i, commit) ==
  IF i > Len(segs) THEN [err |-> "", commit |-> commit]
  ELSE IF segs[i] = "HEAD" THEN walkSegments(segs, i + 1, commitMapGet(head.hash))
  ELSE IF commit # NoCommit
    THEN IF parseInt(segs[i]).nan THEN [err |-> "InvalidHashSyntax", commit |-> NoCommit]
         ELSE LET w == walkParents(commit, parseInt(segs[i]).value)
              IN IF w.err # "" THEN w ELSE walkSegments(segs, i + 1, w.commit)
  ELSE walkSegments(segs, i + 1, commit)

\* variant that answers null where the walk throws
findCommitByHashNoThrow(hash) ==
  IF Len(Split(hash)) > 1
    THEN [err |-> "", commit |-> walkSegments(Split(hash), 1, NoCommit).commit]
    ELSE [err |-> "", commit |-> commitMapGet(hash)]
\* lines 470-497; NoCommit stands for null
findCommitByHash(hash) ==
  IF Len(Split(hash)) > 1 THEN walkSegments(Split(hash), 1, NoCommit)
  ELSE [err |-> "", commit |-> commitMapGet(hash)]

(* ------------------------------ checkout ------------------------------ *)
StrTarget(str) == [kind |-> "string", str |-> str, ref |-> NoRef, commit |-> NoCommit]
RefTarget(ref) == [kind |-> "ref", str |-> "", ref |-> ref, commit |-> NoCommit]
CommitTarget(commit) == [kind |-> "commit", str |-> "", ref |-> NoRef, commit |-> commit]

\* a Commit object built outside this repository
ForeignCommit == [hash |-> ForeignHash, message |-> "foreign", root |-> [p \in Paths |-> IF p = "a.txt" THEN 2 ELSE 0],
                  parents |-> <<>>]
\* Reference objects built outside this repository (or kept from earlier)
ForeignRefs == {[name |-> "ghost", hash |-> h, start |-> h] : h \in {HashOf(1), ForeignHash}}

\* the targets checkout is called with
Targets ==
  {StrTarget(s) : s \in RefNames \cup (DOMAIN commitMap) \cup {"nope", "HEAD~1", "HEAD~x"}}
    \cup {RefTarget(references[i]) : i \in 1..Len(references)}
    \cup {RefTarget(r) : r \in ForeignRefs}
    \cup {CommitTarget(commits[i]) : i \in 1..Len(commits)}
    \cup {CommitTarget(ForeignCommit)}

\* variant that drops the error
ResolvedNoError(err, commit, ref) == [err |-> "", commit |-> commit, ref |-> ref]
\* targetCommit and targetRef, or the error thrown while resolving
Resolved(err, commit, ref) == [err |-> err, commit |-> commit, ref |-> ref]

\* lines 606-643: target -> (targetCommit, targetRef); NoRef stands for an
\* unset targetRef
ResolveTarget(t) ==
  LET viaHash(h, ref) ==
        LET f == findCommitByHash(h)
        IN IF f.err # "" THEN Resolved(f.err, NoCommit, NoRef)
           ELSE IF f.commit = NoCommit THEN Resolved("UnknownTarget", NoCommit, NoRef)
           ELSE Resolved("", f.commit, ref)
  IN IF t.kind = "string"
       THEN IF findReferenceByName(t.str) # NoRef
              THEN viaHash(findReferenceByName(t.str).hash, findReferenceByName(t.str))
            ELSE IF Len(filterReferenceByHash(t.str)) = 0
              THEN viaHash(t.str, NoRef)
            ELSE IF Len(filterReferenceByHash(t.str)) > 1
              THEN Resolved("MoreThanOneRef", NoCommit, NoRef)
            ELSE viaHash(filterReferenceByHash(t.str)[1].hash, filterReferenceByHash(t.str)[1])
     ELSE IF t.kind = "ref"
       THEN viaHash(t.ref.hash, t.ref)
     ELSE Resolved("", t.commit,
                   IF Len(filterReferenceByHash(t.commit.hash)) = 1
                     THEN filterReferenceByHash(t.commit.hash)[1] ELSE NoRef)

\* lines 601-650: checkout is called, the target is resolved, IoContext.init
\* and osWalk are started
checkout(t, reset) ==
  /\ pc = "idle" /\ opened
  /\ ops < MaxOps
  /\ trace' = <<>>
  /\ LET r == ResolveTarget(t)
         o == [NoOp EXCEPT !.kind = "checkout", !.reset = reset,
                           !.commit = r.commit, !.ref = r.ref]
     IN /\ Begin(o)
        /\ IF r.err # "" THEN Fail(r.err) ELSE pc' = "co_walk" /\ lastError' = "" /\ Started
  /\ UNCHANGED <<memVars, index, odbVars, storeExists, opened, workdir, nextHash>>

\* variant that attaches HEAD to the resolved reference even with DETACH
checkoutWalkNoDetach ==
  /\ pc = "co_walk"
  /\ IF head.hash = NoHash
       THEN /\ Fail("TypeError")
            /\ UNCHANGED <<head, op, trace>>
       ELSE /\ op' = [op EXCEPT !.items = WorkFiles]
            /\ head' = [hash |-> op.commit.hash,
                        name |-> IF op.ref = NoRef THEN "HEAD" ELSE op.ref.name]
            /\ trace' = Append(trace, Ev("head", ""))
            /\ pc' = "co_writeHead"
            /\ UNCHANGED lastError
  /\ UNCHANGED <<commits, commitMap, references, index, odbVars, storeExists, opened, workdir, nextHash, ops>>
\* lines 651-669: osWalk resolved with the files of the working directory;
\* HEAD is moved in memory and Odb.writeHeadReference is started
checkoutWalk ==
  /\ pc = "co_walk"
  /\ IF head.hash = NoHash
       THEN \* items stays undefined; the next callback throws on it
            /\ Fail("TypeError")
            /\ UNCHANGED <<head, op, trace>>
       ELSE /\ op' = [op EXCEPT !.items = WorkFiles]
            /\ head' = [hash |-> op.commit.hash,
                        name |-> IF op.ref = NoRef \/ HasFlag(op.reset, DETACH) THEN "HEAD" ELSE op.ref.name]
            /\ trace' = Append(trace, Ev("head", ""))
            /\ pc' = "co_writeHead"
            /\ UNCHANGED lastError
  /\ UNCHANGED <<commits, commitMap, references, index, odbVars, storeExists, opened, workdir, nextHash, ops>>

\* lines 680-699: the paths to trash and the paths to restore
newFiles(o) == IF HasFlag(o.reset, DELETE_NEW_FILES) THEN o.items \ TreePaths(o.commit.root) ELSE {}
\* variant that restores nothing
deletedFilesNone(o) == {}
deletedFiles(o) == IF HasFlag(o.reset, RESTORE_DELETED_FILES) THEN TreePaths(o.commit.root) \ o.items ELSE {}

\* lines 669-701: the HEAD record is written; the trash and restore promises
\* are created
checkoutWriteHead ==
  /\ pc = "co_writeHead"
  /\ odbHead' = HeadRecord(head)
  /\ trace' = Append(trace, Ev("writeHead", ""))
  /\ op' = [op EXCEPT !.pending = newFiles(op) \cup deletedFiles(op)]
  /\ pc' = "co_files"
  /\ UNCHANGED <<memVars, index, odbCommits, odbRefs, storeExists, opened,
                 workdir, lastError, nextHash, ops>>

\* Odb.writeHeadReference rejects: nothing after it runs
checkoutWriteHeadFail ==
  /\ pc = "co_writeHead"
  /\ Fail("IoError")
  /\ UNCHANGED <<memVars, index, odbVars, storeExists, opened, workdir, op, trace, nextHash, ops>>

\* line 684: IoContext.putToTrash of a new file resolves
checkoutTrash(p) ==
  /\ pc = "co_files" /\ p \in op.pending /\ p \in newFiles(op)
  /\ workdir' = [workdir EXCEPT ![p] = 0]
  /\ op' = [op EXCEPT !.pending = @ \ {p}]
  /\ trace' = Append(trace, Ev("trash", p))
  /\ UNCHANGED <<memVars, index, odbVars, storeExists, opened, pc, lastError, nextHash, ops>>

\* line 694: Odb.readObject of a deleted file resolves
checkoutRestore(p) ==
  /\ pc = "co_files" /\ p \in op.pending /\ p \in deletedFiles(op)
  /\ workdir' = [workdir EXCEPT ![p] = op.commit.root[p]]
  /\ op' = [op EXCEPT !.pending = @ \ {p}]
  /\ trace' = Append(trace, Ev("restore", p))
  /\ UNCHANGED <<memVars, index, odbVars, storeExists, opened, pc, lastError, nextHash, ops>>

\* a trash, restore or rewrite promise rejects; the others still settle
checkoutFileFail(p) ==
  /\ pc \in {"co_files", "co_rewrite"} /\ p \in op.pending
  /\ op' = [op EXCEPT !.pending = @ \ {p}, !.failed = TRUE]
  /\ trace' = Append(trace, Ev("fail", p))
  /\ UNCHANGED <<memVars, index, odbVars, storeExists, opened, workdir, pc, lastError, nextHash, ops>>

\* TreeFile.isFileModified: the working copy differs from the tree file
isFileModified(tree, p) == workdir[p] # tree[p]

\* variant that starts the checks while trash and restore promises run
checkoutCheckModifiedEarly ==
  /\ pc = "co_files"
  /\ IF op.failed
       THEN Fail("IoError") /\ UNCHANGED op
       ELSE /\ op' = [op EXCEPT !.pending =
                        IF HasFlag(op.reset, DELETE_MODIFIED_FILES)
                          THEN {p \in op.items \cap TreePaths(op.commit.root) : isFileModified(op.commit.root, p)}
                          ELSE {}]
            /\ pc' = "co_rewrite"
            /\ UNCHANGED lastError
  /\ UNCHANGED <<memVars, index, odbVars, storeExists, opened, workdir, trace, nextHash, ops>>
\* lines 703-730: Promise.all of the first phase settled; the files present
\* before and in the target are checked and the modified ones are rewritten
checkoutCheckModified ==
  /\ pc = "co_files" /\ op.pending = {}
  /\ IF op.failed
       THEN Fail("IoError") /\ UNCHANGED op
       ELSE /\ op' = [op EXCEPT !.pending =
                        IF HasFlag(op.reset, DELETE_MODIFIED_FILES)
                          THEN {p \in op.items \cap TreePaths(op.commit.root) : isFileModified(op.commit.root, p)}
                          ELSE {}]
            /\ pc' = "co_rewrite"
            /\ UNCHANGED lastError
  /\ UNCHANGED <<memVars, index, odbVars, storeExists, opened, workdir, trace, nextHash, ops>>

\* line 728: Odb.readObject over a modified file resolves
checkoutRewrite(p) ==
  /\ pc = "co_rewrite" /\ p \in op.pending
  /\ workdir' = [workdir EXCEPT ![p] = op.commit.root[p]]
  /\ op' = [op EXCEPT !.pending = @ \ {p}]
  /\ trace' = Append(trace, Ev("rewrite", p))
  /\ UNCHANGED <<memVars, index, odbVars, storeExists, opened, pc, lastError, nextHash, ops>>

\* line 733: all rewrites settled; the log entry is written
checkoutWriteLog ==
  /\ pc = "co_rewrite" /\ op.pending = {}
  /\ IF op.failed
       THEN Fail("IoError") /\ UNCHANGED trace
       ELSE /\ trace' = Append(trace, Ev("log", ""))
            /\ pc' = "done"
            /\ UNCHANGED lastError
  /\ UNCHANGED <<memVars, index, odbCommits, odbHead, odbRefs, storeExists, opened,
                 workdir, op, nextHash, ops>>

(* ------------------------- reference mutators ------------------------- *)
\* the startPoint argument null
NullArg == "null"

\* variant that never finds the name
refExistsNever(name) == FALSE
\* lines 546-547: a reference of that name is already in the list
refExists(name) == findReferenceByName(name) # NoRef

\* lines 545-565: createNewReference up to the call of Odb.writeReference
createNewReference(name, startPointArg) ==
  /\ pc = "idle" /\ opened
  /\ ops < MaxOps
  /\ trace' = <<>>
  /\ LET startPoint == IF startPointArg = NullArg THEN head.hash ELSE startPointArg
         newRef == [name |-> name, hash |-> startPoint, start |-> startPoint]
         o == [NoOp EXCEPT !.kind = "createNewReference", !.ref = newRef]
     IN /\ Begin(o)
        /\ IF refExists(name)
             THEN Fail("RefExists") /\ UNCHANGED references
           ELSE IF ~commitMapHas(startPoint)
             THEN Fail("InvalidStartPoint") /\ UNCHANGED references
           ELSE /\ references' = Append(references, newRef)
                /\ pc' = "nr_writeRef"
                /\ lastError' = ""
                /\ Started
  /\ UNCHANGED <<commits, commitMap, head, index, odbVars, storeExists, opened, workdir, nextHash>>

\* line 565: Odb.writeReference(newRef) resolves
createNewReferenceWriteRef ==
  /\ pc = "nr_writeRef"
  /\ odbRefs' = writeReference(odbRefs, op.ref)
  /\ trace' = Append(trace, Ev("writeRef", ""))
  /\ pc' = "nr_writeLog"
  /\ UNCHANGED <<memVars, index, odbCommits, odbHead, storeExists, opened,
                 workdir, op, lastError, nextHash, ops>>

\* line 565: Log.writeLog resolves and the new reference is returned
createNewReferenceWriteLog ==
  /\ pc = "nr_writeLog"
  /\ trace' = Append(trace, Ev("log", ""))
  /\ pc' = "done"
  /\ UNCHANGED <<memVars, index, odbCommits, odbHead, odbRefs, storeExists, opened,
                 workdir, op, lastError, nextHash, ops>>

\* Odb.writeReference or Log.writeLog rejects
createNewReferenceStoreFail ==
  /\ pc \in {"nr_writeRef", "nr_writeLog"}
  /\ Fail("IoError")
  /\ UNCHANGED <<memVars, index, odbVars, storeExists, opened, workdir, op, trace, nextHash, ops>>

\* lines 470-497 called by a user of the repository: the commit or null is
\* returned, or the error is thrown
findCommit(hash) ==
  /\ pc = "idle" /\ opened
  /\ ops < MaxOps
  /\ trace' = <<>>
  /\ LET f == findCommitByHash(hash)
     IN /\ Begin([NoOp EXCEPT !.kind = "findCommitByHash", !.arg = hash, !.commit = f.commit])
        /\ IF f.err # "" THEN Fail(f.err) ELSE pc' = "done" /\ lastError' = "" /\ ops' = ops
  /\ UNCHANGED <<memVars, index, odbVars, storeExists, opened, workdir, nextHash>>

\* Reference.target(): the commit hash the reference points to
target(ref) == ref.hash

\* variant without the check of HEAD's name
deleteReferenceUnguarded(branchName) ==
  /\ pc = "idle" /\ opened
  /\ ops < MaxOps
  /\ trace' = <<>>
  /\ Begin([NoOp EXCEPT !.kind = "deleteReference", !.ref = findReferenceByName(branchName)])
  /\ references' = SelectSeq(references, LAMBDA r : r.name # branchName)
  /\ pc' = "dr_delete"
  /\ lastError' = ""
  /\ Started
  /\ UNCHANGED <<commits, commitMap, head, index, odbVars, storeExists, opened, workdir, nextHash>>
\* lines 514-525: deleteReference up to the call of Odb.deleteReference
deleteReference(branchName) ==
  /\ pc = "idle" /\ opened
  /\ ops < MaxOps
  /\ trace' = <<>>
  /\ LET o == [NoOp EXCEPT !.kind = "deleteReference", !.ref = findReferenceByName(branchName)]
     IN /\ Begin(o)
        /\ IF head.name = branchName
             THEN Fail("CannotDeleteCheckedOutRef") /\ UNCHANGED references
             ELSE /\ references' = SelectSeq(references, LAMBDA r : r.name # branchName)
                  /\ pc' = "dr_delete"
                  /\ lastError' = ""
                  /\ Started
  /\ UNCHANGED <<commits, commitMap, head, index, odbVars, storeExists, opened, workdir, nextHash>>

\* lines 525-529: Odb.deleteReference settles; a rejection is swallowed and
\* the record then stays in the store
deleteReferenceSettle(removed) ==
  /\ pc = "dr_delete"
  /\ odbRefs' = IF removed /\ op.ref # NoRef THEN odbDeleteReference(odbRefs, op.ref.name) ELSE odbRefs
  /\ trace' = Append(trace, Ev(IF removed THEN "deleteRef" ELSE "fail", ""))
  /\ op' = [op EXCEPT !.result = IF op.ref # NoRef THEN target(op.ref) ELSE NullArg]
  /\ pc' = "done"
  /\ UNCHANGED <<memVars, index, odbCommits, odbHead, storeExists, opened,
                 workdir, lastError, nextHash, ops>>

\* lines 574-579
setHead(name) ==
  /\ pc = "idle" /\ opened
  /\ ops < MaxOps
  /\ trace' = <<>>
  /\ Begin([NoOp EXCEPT !.kind = "setHead"])
  /\ IF findReferenceByName(name) = NoRef
       THEN Fail("RefNotFound") /\ UNCHANGED head
       ELSE /\ head' = [head EXCEPT !.name = name]
            /\ lastError' = ""
            /\ pc' = "done"
            /\ Started
  /\ UNCHANGED <<commits, commitMap, references, index, odbVars, storeExists, opened, workdir, nextHash>>

\* lines 587-593
setHeadDetached(hash) ==
  /\ pc = "idle" /\ opened
  /\ ops < MaxOps
  /\ trace' = <<>>
  /\ Begin([NoOp EXCEPT !.kind = "setHeadDetached"])
  /\ IF commitMapGet(hash) = NoCommit
       THEN Fail("UnknownCommit") /\ UNCHANGED head
       ELSE /\ head' = [name |-> "HEAD", hash |-> hash]
            /\ lastError' = ""
            /\ pc' = "done"
            /\ Started
  /\ UNCHANGED <<commits, commitMap, references, index, odbVars, storeExists, opened, workdir, nextHash>>

\* the caller receives the result of the operation (the promise settles)
settle ==
  /\ pc \in {"done", "failed"}
  /\ pc' = "idle"
  /\ op' = NoOp /\ trace' = <<>> /\ lastError' = ""
  /\ UNCHANGED <<memVars, index, odbVars, storeExists, opened, workdir, nextHash, ops>>

(* ------------------------------ getStatus ----------------------------- *)
\* the file <workdir>/ignore, when there is one, holds the line "b.log";
\* IgnoreManager.init turns it into the regular expression /b.log/ and
\* IgnoreManager.ignored(p) is true when it matches somewhere in p
ignoreFileIgnored(p) ==
  \E i \in 1..Len(p) :
    /\ i + 4 <= Len(p)
    /\ SubSeq(p, i, i) = "b"
    /\ SubSeq(p, i + 2, i + 4) = "log"

StatusEntry(path, status) == [path |-> path, status |-> status]

\* lines 815-836: the entries of the files that are in the working directory
\* and in the HEAD tree
existingEntries(filter, oldFilePaths) ==
  LET existingFiles == WorkFiles \cap oldFilePaths
      tree == getCommitByHead.root
  IN {StatusEntry(p, WT_MODIFIED) : p \in {q \in existingFiles : isFileModified(tree, q) /\ ~ignoreFileIgnored(q)}}
       \cup (IF HasFlag(filter, INCLUDE_UNMODIFIED)
               THEN {StatusEntry(p, UNMODIFIED) : p \in {q \in existingFiles : ~isFileModified(tree, q)}}
               ELSE {})

\* lines 768-838 with an IgnoreManager: the status entries of the files
statusEntries(filter) ==
  LET currentFiles == WorkFiles
      oldFilePaths == IF commitMapHas(head.hash) THEN TreePaths(getCommitByHead.root) ELSE {}
      newEntries == IF HasFlag(filter, INCLUDE_UNTRACKED)
                      THEN {StatusEntry(p, WT_NEW) : p \in {q \in currentFiles \ oldFilePaths : ~ignoreFileIgnored(q)}}
                      ELSE {}
      deletedEntries == {StatusEntry(p, WT_DELETED) : p \in {q \in oldFilePaths \ currentFiles : ~ignoreFileIgnored(q)}}
  IN IF head.hash = NoHash THEN {}
     ELSE newEntries \cup deletedEntries \cup existingEntries(filter, oldFilePaths)

\* lines 741-840: getStatus(filter); ignoreFile tells whether <workdir>/ignore
\* exists. Without the file the promise chain of line 751 resolves to
\* undefined and line 760 reads .success of it
getStatus(filter, ignoreFile) ==
  /\ pc = "idle" /\ opened
  /\ ops < MaxOps
  /\ trace' = <<>>
  /\ LET o == [NoOp EXCEPT !.kind = "getStatus", !.filter = filter, !.ignoreFile = ignoreFile]
     IN IF ~ignoreFile
          THEN Begin(o) /\ Fail("TypeError")
          ELSE /\ Begin([o EXCEPT !.status = statusEntries(filter)])
               /\ pc' = "done" /\ lastError' = "" /\ ops' = ops
  /\ UNCHANGED <<memVars, index, odbVars, storeExists, opened, workdir, nextHash>>

(* --------------------------- chunked hasher --------------------------- *)
MB100 == 100000000
MB20 == 20000000

\* crypto sha256 of a string, hex digest: different inputs, different digests
sha256(str) == "sha(" \o str \o ")"

\* Math.ceil(a / b) for a >= 0, b > 0
Ceil(a, b) == (a + b - 1) \div b
Min(a, b) == IF a < b THEN a ELSE b

\* the bytes a read stream over [start, end] delivers: the stream stops at the
\* end of the file; without start and end (-1) it delivers the whole file
Bytes(h, start, end) ==
  IF start = -1 THEN "bytes " \o ToString(h.data[1]) \o "[0.." \o ToString(h.size - 1) \o "]"
  ELSE "bytes " \o ToString(h.data[(start \div MB100) + 1])
         \o "[" \o ToString(start) \o ".." \o ToString(Min(end, h.size - 1)) \o "]"

\* lines 84-100: the HashBlock getPartHash resolves with
getPartHash(h, block) ==
  [hash |-> sha256(Bytes(h, block.start, block.end)), start |-> block.start, end |-> block.end]

\* variant without the special case of the last block
blockRangesUnclamped(size) ==
  [i \in 1..Ceil(size, MB100) |-> [start |-> (i - 1) * MB100, end |-> i * MB100 - 1]]
\* lines 174-182 (and 121-129): the byte ranges of the blocks; block i of the
\* code is element i + 1 here
blockRanges(size) ==
  LET divider == Ceil(size, MB100)
  IN [i \in 1..divider |->
        [start |-> (i - 1) * MB100,
         end |-> IF i = divider THEN Min(MB100 * divider, size) - 1 ELSE i * MB100 - 1]]

\* the read tasks of a file: one whole-file read below 20 MB, else one per block
hashTasks(size) == IF size < MB20 THEN <<[start |-> -1, end |-> -1]>> ELSE blockRanges(size)

\* concatenation of the strings of a sequence, in index order
RECURSIVE Concat(_)
Concat(strs) == IF Len(strs) = 0 THEN "" ELSE Head(strs) \o Concat(Tail(strs))

\* the block indices in the order their tasks completed
CompletionOrder == [k \in 1..Len(trace) |-> trace[k].path]

\* variant that folds the block hashes in the order the tasks completed
foldHashesAsCompleted(hashes) ==
  sha256(Concat([k \in 1..Len(trace) |-> hashes[trace[k].path].hash]))
\* lines 194-199: Promise.all delivers the HashBlocks in the order of the
\* promise array; each hash is fed to the final digest
foldHashes(hashes) == sha256(Concat([i \in 1..Len(hashes) |-> hashes[i].hash]))

\* lines 146-151: the fold of compareFileHash feeds h.toString() of each
\* HashBlock object to the digest
foldHashBlocks(hashes) == sha256(Concat([i \in 1..Len(hashes) |-> "[object Object]"]))

\* lines 169-192: calculateFileHash(filepath) on a file of that size and
\* content: stat, the block ranges, one getPartHash task per block
calculateFileHash(size, data) ==
  /\ pc = "idle"
  /\ ops < MaxOps /\ Started
  /\ trace' = <<>>
  /\ op' = [NoOp EXCEPT !.kind = "hashFile",
                        !.h = [NoHashing EXCEPT !.size = size, !.data = data,
                                                !.blocks = hashTasks(size),
                                                !.hashes = [i \in 1..Len(hashTasks(size)) |-> [hash |-> "", start |-> 0, end |-> 0]],
                                                !.pending = 1..Len(hashTasks(size))]]
  /\ pc' = "hf_hashing"
  /\ lastError' = ""
  /\ UNCHANGED <<memVars, index, odbVars, storeExists, opened, workdir, nextHash>>

\* variant that turns every error into false
compareCatchAll(message) == [rejects |-> FALSE, value |-> FALSE]
\* lines 153-158: the catch handler of compareFileHash
compareCatch(message) ==
  IF message = "hashblock different" THEN [rejects |-> FALSE, value |-> FALSE]
  ELSE [rejects |-> TRUE, value |-> FALSE]

\* the expected hash of block i, undefined past the end of the list
expectedAt(h, i) == IF i <= Len(h.expected) THEN h.expected[i] ELSE "undefined"

\* lines 95-96 and 138-143: the read stream of task i ends and getPartHash
\* resolves; in compareFileHash the block hash is compared with the expected
\* one and a difference throws, which rejects Promise.all at once
partHashResolve(i) ==
  /\ pc \in {"hf_hashing", "cf_hashing"} /\ i \in op.h.pending
  /\ LET hb == getPartHash(op.h, op.h.blocks[i])
         differs == pc = "cf_hashing" /\ op.h.size >= MB20 /\ op.h.hasExpected
                      /\ hb.hash # expectedAt(op.h, i)
     IN IF differs
          THEN /\ trace' = Append(trace, Ev("mismatch", i))
               /\ op' = [op EXCEPT !.h.pending = @ \ {i}, !.h.equal = compareCatch("hashblock different").value]
               /\ IF compareCatch("hashblock different").rejects
                    THEN pc' = "failed" /\ lastError' = "hashblock different"
                    ELSE pc' = "done" /\ UNCHANGED lastError
          ELSE /\ trace' = Append(trace, Ev("block", i))
               /\ op' = [op EXCEPT !.h.pending = @ \ {i}, !.h.hashes[i] = hb]
               /\ UNCHANGED <<pc, lastError>>
  /\ UNCHANGED <<memVars, index, odbVars, storeExists, opened, workdir, nextHash, ops>>

\* line 98: the read stream of task i fails; the promise of calculateFileHash
\* rejects, the one of compareFileHash goes through its catch handler
partHashReject(i) ==
  /\ pc \in {"hf_hashing", "cf_hashing"} /\ i \in op.h.pending
  /\ trace' = Append(trace, Ev("fail", i))
  /\ op' = [op EXCEPT !.h.pending = @ \ {i}]
  /\ IF pc = "cf_hashing" /\ ~compareCatch("IoError").rejects
       THEN pc' = "done" /\ UNCHANGED lastError
       ELSE pc' = "failed" /\ lastError' = "IoError"
  /\ UNCHANGED <<memVars, index, odbVars, storeExists, opened, workdir, nextHash, ops>>

\* lines 172 and 194-200: all tasks resolved; calculateFileHash resolves with
\* the whole-file hash, or with the folded hash and the block list
calculateFileHashFold ==
  /\ pc = "hf_hashing" /\ op.h.pending = {}
  /\ op' = IF op.h.size < MB20
             THEN [op EXCEPT !.h.filehash = op.h.hashes[1].hash]
             ELSE [op EXCEPT !.h.filehash = foldHashes(op.h.hashes),
                             !.h.hashBlocks = op.h.hashes, !.h.hasBlocks = TRUE]
  /\ pc' = "done"
  /\ UNCHANGED <<memVars, index, odbVars, storeExists, opened, workdir, trace, lastError, nextHash, ops>>

\* lines 109-144: compareFileHash(filepath, r.filehash, hashes of r.hashBlocks)
\* with the result r of the calculateFileHash that just resolved; the blocks
\* of changed were overwritten in between, and the block list is handed over
\* or omitted
compareFileHash(changed, withBlocks) ==
  /\ pc = "done" /\ op.kind = "hashFile"
  /\ changed \subseteq 1..Len(op.h.blocks)
  /\ withBlocks => op.h.hasBlocks
  /\ trace' = <<>>
  /\ op' = [op EXCEPT !.kind = "compareFileHash",
                      !.h.data = [i \in 1..Len(op.h.data) |-> IF i \in changed THEN 3 - op.h.data[i] ELSE op.h.data[i]],
                      !.h.changed = changed,
                      !.h.expectedHash = op.h.filehash,
                      !.h.hasExpected = withBlocks,
                      !.h.expected = IF withBlocks THEN [i \in 1..Len(op.h.hashBlocks) |-> op.h.hashBlocks[i].hash] ELSE <<>>,
                      !.h.hashes = [i \in 1..Len(op.h.blocks) |-> [hash |-> "", start |-> 0, end |-> 0]],
                      !.h.pending = 1..Len(op.h.blocks)]
  /\ pc' = "cf_hashing"
  /\ lastError' = ""
  /\ UNCHANGED <<memVars, index, odbVars, storeExists, opened, workdir, nextHash, ops>>

\* lines 115 and 146-152: all tasks resolved; compareFileHash resolves with
\* the comparison of the whole-file hash, or of the folded hash
compareFileHashFold ==
  /\ pc = "cf_hashing" /\ op.h.pending = {}
  /\ op' = [op EXCEPT !.h.equal = IF op.h.size < MB20
                                    THEN op.h.hashes[1].hash = op.h.expectedHash
                                    ELSE op.h.expectedHash = foldHashBlocks(op.h.hashes)]
  /\ pc' = "done"
  /\ UNCHANGED <<memVars, index, odbVars, storeExists, opened, workdir, trace, lastError, nextHash, ops>>

(* -------------------------------- paths ------------------------------- *)
\* position of the first occurrence of the character ch in s, 0 if none
CharPos(s, ch) ==
  IF \E i \in 1..Len(s) : SubSeq(s, i, i) = ch
    THEN CHOOSE i \in 1..Len(s) : SubSeq(s, i, i) = ch /\ \A j \in 1..(i - 1) : SubSeq(s, j, j) # ch
    ELSE 0

\* s.split(ch)
RECURSIVE SplitBy(_, _)
SplitBy(s, ch) ==
  IF CharPos(s, ch) = 0 THEN <<s>>
  ELSE <<SubSeq(s, 1, CharPos(s, ch) - 1)>> \o SplitBy(SubSeq(s, CharPos(s, ch) + 1, Len(s)), ch)

\* segs.join(sep)
RECURSIVE JoinBy(_, _)
JoinBy(segs, sep) ==
  IF Len(segs) = 0 THEN ""
  ELSE IF Len(segs) = 1 THEN segs[1]
  ELSE segs[1] \o sep \o JoinBy(Tail(segs), sep)

endsWith(s, ch) == Len(s) > 0 /\ SubSeq(s, Len(s), Len(s)) = ch

\* normalizeString of Node's path module: empty and '.' segments are dropped,
\* '..' removes the segment before it, or is kept when there is none to
\* remove and the path is relative
RECURSIVE normalizeSegments(_, _, _, _)
normalizeSegments(segs, i, res, allowAboveRoot) ==
  IF i > Len(segs) THEN res
  ELSE IF segs[i] = "" \/ segs[i] = "." THEN normalizeSegments(segs, i + 1, res, allowAboveRoot)
  ELSE IF segs[i] = ".."
    THEN IF Len(res) > 0 /\ res[Len(res)] # ".."
           THEN normalizeSegments(segs, i + 1, SubSeq(res, 1, Len(res) - 1), allowAboveRoot)
         ELSE IF allowAboveRoot
           THEN normalizeSegments(segs, i + 1, Append(res, ".."), allowAboveRoot)
         ELSE normalizeSegments(segs, i + 1, res, allowAboveRoot)
  ELSE normalizeSegments(segs, i + 1, Append(res, segs[i]), allowAboveRoot)

\* path.normalize of Node on a POSIX system
pathNormalize(p) ==
  IF Len(p) = 0 THEN "."
  ELSE LET isAbsolute == SubSeq(p, 1, 1) = "/"
           trailingSeparator == endsWith(p, "/")
           body == JoinBy(normalizeSegments(SplitBy(p, "/"), 1, <<>>, ~isAbsolute), "/")
       IN IF Len(body) = 0
            THEN IF isAbsolute THEN "/" ELSE IF trailingSeparator THEN "./" ELSE "."
            ELSE (IF isAbsolute THEN "/" ELSE "") \o body \o (IF trailingSeparator THEN "/" ELSE "")

\* p.replace(/\\/g, '/')
replaceBackslashes(p) ==
  JoinBy([i \in 1..Len(p) |-> IF SubSeq(p, i, i) = "\\" THEN "/" ELSE SubSeq(p, i, i)], "")

\* path.ts lines 27-30: one trailing slash is cut off, except from '/'
stripTrailingSlash(p) == IF p # "/" /\ endsWith(p, "/") THEN SubSeq(p, 1, Len(p) - 1) ELSE p

\* path.ts lines 19-32
normalize(p) ==
  IF p = "" \/ p = "." THEN ""
  ELSE stripTrailingSlash(replaceBackslashes(pathNormalize(p)))

\* normalize(p) is called: with the path the caller holds, or with the result
\* of the call before
normalizeCall ==
  /\ pc \in {"idle", "done"}
  /\ pc = "done" => op.kind = "normalize"
  /\ LET p == IF pc = "idle" THEN op.arg ELSE op.result
     IN op' = [NoOp EXCEPT !.kind = "normalize", !.arg = p, !.result = normalize(p)]
  /\ pc' = "done"
  /\ UNCHANGED <<memVars, index, odbVars, storeExists, opened, workdir, trace, lastError, nextHash, ops>>

(* ----------------------- initExt with commondir ----------------------- *)
\* part_000 lines 61-67: path.normalize, then one trailing separator cut off
properNormalize(path) ==
  LET p == pathNormalize(path)
  IN IF endsWith(p, "/") THEN SubSeq(p, 1, Len(p) - 1) ELSE p

\* String.prototype.startsWith
startsWith(str, prefix) == Len(prefix) <= Len(str) /\ SubSeq(str, 1, Len(prefix)) = prefix

\* line 1041: the test that rejects the commondir
commondirInside(workdirPath, commondir) ==
  startsWith(properNormalize(commondir), properNormalize(workdirPath))

\* lines 1031-1070 with opts.commondir: the test of line 1041; then the
\* working directory is ensured, <workdir>/.snow is written with the commondir
\* as content, the store and the log are created and the first commit is made
initExtCommondir(workdirPath, commondir) ==
  /\ pc = "idle" /\ ~storeExists /\ ~opened
  /\ IF commondirInside(workdirPath, commondir)
       THEN /\ Begin([NoOp EXCEPT !.kind = "initExt", !.arg = commondir])
            /\ Fail(COMMONDIR_ERROR)
            /\ trace' = <<>>
            /\ UNCHANGED <<memVars, index, nextHash, storeExists, opened>>
       ELSE /\ storeExists' = TRUE
            /\ opened' = TRUE
            /\ createCommitBody(FreshIndex, TRUE, "Created Project", TRUE, "initExt",
                                <<Ev("ensureDir", workdirPath), Ev("writeSnowFile", commondir), Ev("log", "")>>)
  /\ UNCHANGED <<odbCommits, odbHead, odbRefs, workdir>>

(* ----------------------------- walkCommit ----------------------------- *)
\* lines 429-432: walkCommit(commit, cb) is called with a commit of commitMap
\* or with null; the trace records the commits the walk enters and the
\* commits cb is invoked on
walkCommit(h) ==
  /\ pc = "idle" /\ opened
  /\ ops < MaxOps
  /\ LET commit == commitMapGet(h) IN
     IF commit = NoCommit
       THEN /\ Begin([NoOp EXCEPT !.kind = "walkCommit"])
            /\ Fail("CommitMustBeSet")
            /\ trace' = <<>>
       ELSE /\ Begin([NoOp EXCEPT !.kind = "walkCommit", !.commit = commit])
            /\ trace' = <<Ev("enter", commit.hash)>>
            /\ lastError' = ""
            /\ pc' = "walk"
            /\ Started
  /\ UNCHANGED <<memVars, index, odbVars, storeExists, opened, workdir, nextHash>>

\* lines 433-437: one pass of the loops of the innermost call. commit.parent
\* is a list and never changes, so the condition of the while loop is always
\* true: with an empty list the loop spins; otherwise the first parent hash
\* is converted with toString() (a TypeError on undefined) and the walk
\* recurses into commitMap.get of it. No path of the function calls cb or
\* leaves the while loop
walkCommitStep ==
  /\ pc = "walk"
  /\ LET parents == op.commit.parents IN
     IF Len(parents) = 0
       THEN UNCHANGED <<pc, op, trace, lastError, ops>>
     ELSE IF parents[1] = NoHash
       THEN Fail("TypeError") /\ UNCHANGED <<op, trace>>
     ELSE IF ~commitMapHas(parents[1])
       THEN Fail("CommitMustBeSet") /\ UNCHANGED <<op, trace>>
     ELSE /\ op' = [op EXCEPT !.commit = commitMapGet(parents[1])]
          /\ trace' = Append(trace, Ev("enter", parents[1]))
          /\ UNCHANGED <<pc, lastError, ops>>
  /\ UNCHANGED <<memVars, index, odbVars, storeExists, opened, workdir, nextHash>>

(* ------------------------------ IoContext ------------------------------ *)
APFS == 1
REFS == 3
NTFS == 4
FAT32 == 5
FAT16 == 6
FS_OTHER == 7
MB1 == 1000000

\* String.prototype.toLowerCase over the file system names of the model
toLowerCase(s) ==
  CASE s = "ReFS" -> "refs"
    [] s = "NTFS" -> "ntfs"
    [] s = "exFAT" -> "exfat"
    [] OTHER -> s

\* io_context.ts lines 145-197: the file system of a drive; on Windows from
\* the 'File System Name' of the volume info, on macOS from the description
\* of the drive, OTHER everywhere else
getFilesystem(platform, raw) ==
  IF platform = "win32"
    THEN LET filesystem == toLowerCase(raw)
         IN CASE filesystem = "refs" -> REFS
              [] filesystem = "ntfs" -> NTFS
              [] filesystem = "fat16" -> FAT16
              [] filesystem \in {"fat32", "fat"} -> FAT32
              [] OTHER -> FS_OTHER
  ELSE IF platform = "darwin" /\ raw = "AppleAPFSMedia" THEN APFS
  ELSE FS_OTHER

\* lines 269-300: IoContext.init: the normalized mountpoints outside /System/
\* in the order drivelist reports them, each with the file system of its drive
ioInit ==
  /\ pc = "idle" /\ op.kind = "none" /\ ~op.io.valid
  /\ op.io.platform # ""
  /\ LET kept == SelectSeq(op.io.drives, LAMBDA d : ~startsWith(d.path, "/System/"))
     IN op' = [op EXCEPT !.io.valid = TRUE,
                         !.io.mountpoints =
                            [i \in 1..Len(kept) |->
                               [path |-> normalize(kept[i].path),
                                filesystem |-> getFilesystem(op.io.platform, kept[i].raw)]]]
  /\ UNCHANGED <<memVars, index, odbVars, storeExists, opened, workdir, pc, trace, lastError, nextHash, ops>>

\* lines 307-323: the two paths have the same number of mountpoints as prefix
areFilesOnSameDrive(mountpoints, file0, file1) ==
  Cardinality({i \in 1..Len(mountpoints) : startsWith(file0, mountpoints[i].path)})
    = Cardinality({i \in 1..Len(mountpoints) : startsWith(file1, mountpoints[i].path)})

\* lines 396-405: the file system of the first mountpoint that is a prefix of
\* src, looked up only when both files are on the same drive
srcFilesystem(mountpoints, srcAndDstOnSameDrive, src) ==
  LET hits == SelectSeq(mountpoints, LAMBDA m : startsWith(src, m.path))
  IN IF srcAndDstOnSameDrive /\ Len(hits) > 0 THEN hits[1].filesystem ELSE FS_OTHER

REFLINK == "fse.copyFile COPYFILE_FICLONE"
CP_C == "cp -c"
BLOCKCLONE == "powershell Clone-FileViaBlockClone.ps1"

\* variant that clones every file with cp -c
copyFileApfsAlwaysCp(size) == CP_C
\* lines 330-350
copyFileApfs(size) == IF size < MB1 THEN REFLINK ELSE CP_C

\* lines 352-381
copyFileRefs(size, script) ==
  IF size < MB1 THEN REFLINK
  ELSE IF script THEN BLOCKCLONE
  ELSE REFLINK

\* lines 393-425: copyFile(src, dst) up to the start of the copy; the cases
\* of the switch fall through from darwin to win32 to linux
copyFile ==
  /\ pc = "idle" /\ op.kind = "none"
  /\ op.io.platform # ""
  /\ LET io == op.io
         srcAndDstOnSameDrive == areFilesOnSameDrive(io.mountpoints, io.src, io.dst)
         filesystem == srcFilesystem(io.mountpoints, srcAndDstOnSameDrive, io.src)
         started(call) == /\ op' = [op EXCEPT !.kind = "copyFile", !.io.calls = <<call>>]
                          /\ pc' = "copying"
                          /\ UNCHANGED <<lastError, ops>>
     IN IF ~io.valid
          THEN /\ op' = [op EXCEPT !.kind = "copyFile"]
               /\ Fail("NotInitialized")
        ELSE IF io.platform = "darwin" /\ srcAndDstOnSameDrive /\ filesystem = APFS
          THEN started(copyFileApfs(io.size))
        ELSE IF io.platform \in {"darwin", "win32"} /\ srcAndDstOnSameDrive /\ filesystem = REFS
          THEN started(copyFileRefs(io.size, io.script))
        ELSE IF io.platform \in {"darwin", "win32", "linux"}
          THEN started(REFLINK)
        ELSE /\ op' = [op EXCEPT !.kind = "copyFile"]
             /\ Fail("UnsupportedPlatform")
  /\ UNCHANGED <<memVars, index, odbVars, storeExists, opened, workdir, trace, nextHash>>

\* the copy ends: fse.copyFile resolves or rejects, the external tool exits
\* with code 0 or with another code
copyFileExit(ok) ==
  /\ pc = "copying" /\ op.kind = "copyFile"
  /\ IF ok THEN pc' = "done" /\ UNCHANGED <<lastError, ops>>
           ELSE Fail("IoError")
  /\ UNCHANGED <<memVars, index, odbVars, storeExists, opened, workdir, op, trace, nextHash>>

(* ----------------------- performWriteLockChecks ------------------------ *)
\* String.prototype.includes for a single character
includes(str, ch) == \E i \in 1..Len(str) : SubSeq(str, i, i) = ch

\* path.relative for a directory directly below the root
relative(from, to) ==
  IF to = from THEN ""
  ELSE IF startsWith(to, from \o "/") THEN SubSeq(to, Len(from) + 2, Len(to))
  ELSE ".." \o to

\* the output of 'lsof -X -F pcan +D dir' for one file handle: the lines of
\* the process, of the access mode and of the file name
lsofLines(fh) == <<"p" \o fh.pid, "c" \o fh.processname, "a" \o fh.access, "n" \o fh.filepath>>

\* lines 93-107: the lock type read from an access line
lockTypeOf(pline) ==
  IF includes(pline, "N") THEN "N"
  ELSE IF includes(pline, "r") THEN "r"
  ELSE IF includes(pline, "R") THEN "R"
  ELSE IF includes(pline, "w") THEN "w"
  ELSE IF includes(pline, "W") THEN "W"
  ELSE IF includes(pline, "u") THEN "u"
  ELSE "X"

\* lines 84-125: parseStdout over the lines from the i-th on; lsofEntry is
\* the handle being filled and p the list of (relPath, handle) found so far
\* (the map of the code, flattened in insertion order per path)
NoHandle == [pid |-> "", processname |-> "", lockType |-> ""]
RECURSIVE parseStdout(_, _, _, _, _)
parseStdout(lines, i, lsofEntry, p, dirpath) ==
  IF i > Len(lines) THEN p
  ELSE LET pline == lines[i]
           rest == SubSeq(pline, 2, Len(pline))
       IN IF startsWith(pline, "p")
            THEN parseStdout(lines, i + 1, [NoHandle EXCEPT !.pid = rest], p, dirpath)
          ELSE IF startsWith(pline, "c")
            THEN parseStdout(lines, i + 1, [lsofEntry EXCEPT !.processname = rest], p, dirpath)
          ELSE IF startsWith(pline, "a")
            THEN parseStdout(lines, i + 1, [lsofEntry EXCEPT !.lockType = lockTypeOf(pline)], p, dirpath)
          ELSE IF startsWith(pline, "n")
            THEN IF startsWith(rest, dirpath)
                   THEN parseStdout(lines, i + 1, NoHandle,
                                    Append(p, [relPath |-> relative(dirpath, rest), fh |-> lsofEntry]),
                                    dirpath)
                   ELSE parseStdout(lines, i + 1, lsofEntry, p, dirpath)
          ELSE parseStdout(lines, i + 1, lsofEntry, p, dirpath)

\* lines 497-509: one error per handle of a path of relPaths whose lock type
\* is u, W or w
RECURSIVE writeLockErrors(_, _, _)
writeLockErrors(relPaths, i, fileHandles) ==
  IF i > Len(relPaths) THEN <<>>
  ELSE LET fhs == SelectSeq(fileHandles, LAMBDA e : e.relPath = relPaths[i])
           bad == SelectSeq(fhs, LAMBDA e : e.fh.lockType \in {"u", "W", "w"})
       IN [k \in 1..Len(bad) |-> [relPath |-> relPaths[i], processname |-> bad[k].fh.processname]]
            \o writeLockErrors(relPaths, i + 1, fileHandles)

\* lines 437, 516-524 on macOS and Linux: checkUnixLike spawns lsof
performWriteLockChecks ==
  /\ pc = "idle" /\ op.kind = "none"
  /\ op.io.platform \in {"darwin", "linux"} /\ op.io.dir # ""
  /\ op' = [op EXCEPT !.kind = "performWriteLockChecks"]
  /\ pc' = "lsof"
  /\ UNCHANGED <<memVars, index, odbVars, storeExists, opened, workdir, trace, lastError, nextHash, ops>>

\* lines 78-81: a 'data' event of the output stream: stdout grows
lsofData ==
  /\ pc = "lsof" /\ op.io.received < Len(op.io.listing)
  /\ op' = [op EXCEPT !.io.received = @ + 1]
  /\ UNCHANGED <<memVars, index, odbVars, storeExists, opened, workdir, pc, trace, lastError, nextHash, ops>>

\* lines 127-134, 495-513: the 'exit' event of lsof; it is not ordered with
\* the 'data' events that are still to come, so stdout is what was received
\* until now. Code 1: stdout is parsed and the errors are collected; any other
\* code rejects with the code
lsofExit ==
  /\ pc = "lsof"
  /\ LET stdout == [i \in 1..(4 * op.io.received) |->
                      lsofLines(op.io.listing[((i - 1) \div 4) + 1])[((i - 1) % 4) + 1]]
         errors == writeLockErrors(op.io.relPaths, 1, parseStdout(stdout, 1, NoHandle, <<>>, op.io.dir))
     IN IF op.io.code # 1
          THEN Fail("ExitCode") /\ UNCHANGED op
        ELSE IF Len(errors) > 0
          THEN op' = [op EXCEPT !.io.errors = errors] /\ Fail("AggregateError")
        ELSE pc' = "done" /\ UNCHANGED <<op, lastError, ops>>
  /\ UNCHANGED <<memVars, index, odbVars, storeExists, opened, workdir, trace, nextHash>>

(* ---------------------------- IgnoreManager ---------------------------- *)
\* line.replace(/\/\*[\s\S]*?\*\/|\/\/.*/g, '') for lines without a block
\* comment: everything from the first '//' on is cut off
RECURSIVE stripComment(_)
stripComment(line) ==
  IF Len(line) < 2 THEN line
  ELSE IF SubSeq(line, 1, 2) = "//" THEN ""
  ELSE SubSeq(line, 1, 1) \o stripComment(SubSeq(line, 2, Len(line)))

\* a glob without '/' against one path segment: '*' stands for any characters
RECURSIVE segMatch(_, _)
segMatch(glob, seg) ==
  IF glob = "" THEN seg = ""
  ELSE IF SubSeq(glob, 1, 1) = "*"
    THEN \E k \in 0..Len(seg) : segMatch(SubSeq(glob, 2, Len(glob)), SubSeq(seg, k + 1, Len(seg)))
  ELSE /\ seg # ""
       /\ SubSeq(seg, 1, 1) = SubSeq(glob, 1, 1)
       /\ segMatch(SubSeq(glob, 2, Len(glob)), SubSeq(seg, 2, Len(seg)))

\* the segments of a glob against the segments of a path: '**' stands for any
\* number of segments
RECURSIVE segsMatch(_, _)
segsMatch(globs, segs) ==
  IF Len(globs) = 0 THEN Len(segs) = 0
  ELSE IF globs[1] = "**"
    THEN \E k \in 0..Len(segs) : segsMatch(Tail(globs), SubSeq(segs, k + 1, Len(segs)))
  ELSE /\ Len(segs) > 0
       /\ segMatch(globs[1], segs[1])
       /\ segsMatch(Tail(globs), Tail(segs))

\* picomatch of a glob without negation, with the option dot
globMatch(glob, filepath) == segsMatch(SplitBy(glob, "/"), SplitBy(filepath, "/"))

\* picomatch: the leading '!' characters of a pattern; an odd number negates
RECURSIVE leadingBangs(_)
leadingBangs(pattern) ==
  IF startsWith(pattern, "!") THEN 1 + leadingBangs(SubSeq(pattern, 2, Len(pattern))) ELSE 0

\* micromatch(filepath, patterns) for one path, from the i-th pattern on: a
\* pattern that is not negated and matches puts the path into keep and takes
\* it out of omit; a negated pattern whose glob matches puts it into omit; the
\* result holds the path when it is in keep and not in omit at the end
RECURSIVE micromatch(_, _, _, _, _)
micromatch(filepath, patterns, i, keep, omit) ==
  IF i > Len(patterns) THEN keep /\ ~omit
  ELSE LET bangs == leadingBangs(patterns[i])
           negated == bangs % 2 = 1
           match == globMatch(SubSeq(patterns[i], bangs + 1, Len(patterns[i])), filepath)
       IN IF ~match THEN micromatch(filepath, patterns, i + 1, keep, omit)
          ELSE IF negated THEN micromatch(filepath, patterns, i + 1, keep, TRUE)
          ELSE micromatch(filepath, patterns, i + 1, TRUE, FALSE)

\* part_001 lines 9-29: the built-in patterns made of literal segments, '*'
\* and '**'
builtinPatterns ==
  <<"**/thumbs.db", "**/.git", "**/.git/**", "**/backup/**", "**/*.bkp", "**/bkp/**",
    "**/tmp/**", "**/temp/**", "**/cache/**", "**/*.lnk", "**/*.log", "**/.idea/**">>

\* part_001 lines 32-46: loadFile appends every line that is not empty after
\* the comment is cut off, and the line with '/**' when it does not end in '/'
RECURSIVE loadFile(_, _, _)
loadFile(patterns, lines, i) ==
  IF i > Len(lines) THEN patterns
  ELSE LET line == stripComment(lines[i])
       IN IF Len(line) = 0 THEN loadFile(patterns, lines, i + 1)
          ELSE IF endsWith(line, "/") THEN loadFile(Append(patterns, line), lines, i + 1)
          ELSE loadFile(patterns \o <<line, line \o "/**">>, lines, i + 1)

\* the regular expression made of a pattern (ignore.ts line 26): the first
\* '*' becomes [\w/]*, '.' stands for any character, every other character of
\* the model stands for itself; W is the token of [\w/]*
RECURSIVE regexTokens(_, _)
regexTokens(line, replaced) ==
  IF line = "" THEN <<>>
  ELSE IF SubSeq(line, 1, 1) = "*" /\ ~replaced
    THEN <<"W">> \o regexTokens(SubSeq(line, 2, Len(line)), TRUE)
  ELSE <<SubSeq(line, 1, 1)>> \o regexTokens(SubSeq(line, 2, Len(line)), replaced)

WordChars == {"a", "b", "d", "g", "l", "o", "t", "x", "/"}

\* the tokens from the i-th on match the string from position j on
RECURSIVE regexMatchAt(_, _, _, _)
regexMatchAt(tokens, i, str, j) ==
  IF i > Len(tokens) THEN TRUE
  ELSE IF tokens[i] = "W"
    THEN \E k \in j..(Len(str) + 1) :
           /\ \A n \in j..(k - 1) : SubSeq(str, n, n) \in WordChars
           /\ regexMatchAt(tokens, i + 1, str, k)
  ELSE /\ j <= Len(str)
       /\ tokens[i] = "." \/ tokens[i] = SubSeq(str, j, j)
       /\ regexMatchAt(tokens, i + 1, str, j + 1)

\* RegExp.prototype.exec without anchors: a match at some position
regexExec(tokens, str) == \E j \in 1..(Len(str) + 1) : regexMatchAt(tokens, 1, str, j)

\* ignore.ts lines 14-39: the lines that are not empty and do not start with
\* '//' become regular expressions, of includes when the line starts with
\* '!', of ignores otherwise
RECURSIVE ignoreInit(_, _, _)
ignoreInit(ig, lines, i) ==
  IF i > Len(lines) THEN ig
  ELSE IF Len(lines[i]) = 0 \/ startsWith(lines[i], "//") THEN ignoreInit(ig, lines, i + 1)
  ELSE LET line == stripComment(lines[i])
           except == startsWith(line, "!")
           regex == regexTokens(IF except THEN SubSeq(line, 2, Len(line)) ELSE line, FALSE)
       IN IF except THEN ignoreInit([ig EXCEPT !.includes = Append(@, regex)], lines, i + 1)
                    ELSE ignoreInit([ig EXCEPT !.ignores = Append(@, regex)], lines, i + 1)

\* ignore.ts lines 46-63
regexIgnored(ig, filepath) ==
  \E n \in 1..Len(ig.ignores) :
    /\ regexExec(ig.ignores[n], filepath)
    /\ ~\E m \in 1..Len(ig.includes) : regexExec(ig.includes[m], filepath)

\* the constructor, then loadFile (part_001) or init (ignore.ts) with the user
\* ignore file
ignoreLoad ==
  /\ pc = "idle" /\ op.kind = "none"
  /\ op.ig.manager # "" /\ ~op.ig.loaded
  /\ op' = [op EXCEPT !.ig =
               IF op.ig.manager = "glob"
                 THEN [op.ig EXCEPT !.loaded = TRUE, !.patterns = loadFile(builtinPatterns, op.ig.lines, 1)]
                 ELSE ignoreInit([op.ig EXCEPT !.loaded = TRUE], op.ig.lines, 1)]
  /\ UNCHANGED <<memVars, index, odbVars, storeExists, opened, workdir, pc, trace, lastError, nextHash, ops>>

\* ignored(filepath) of the loaded manager: part_001 lines 49-54 or ignore.ts
\* lines 46-63
ignoredCall ==
  /\ pc = "idle" /\ op.kind = "none"
  /\ op.ig.loaded
  /\ op' = [op EXCEPT !.kind = "ignored",
                      !.ig.ignored = IF op.ig.manager = "glob"
                                       THEN micromatch(op.arg, op.ig.patterns, 1, FALSE, FALSE)
                                       ELSE regexIgnored(op.ig, op.arg)]
  /\ pc' = "done"
  /\ UNCHANGED <<memVars, index, odbVars, storeExists, opened, workdir, trace, lastError, nextHash, ops>>

(* ------------------------ index and environment ----------------------- *)
\* the user creates, changes or removes a file of the working directory
editFile(p, c) ==
  /\ pc = "idle"
  /\ workdir[p] # c
  /\ workdir' = [workdir EXCEPT ![p] = c]
  /\ UNCHANGED <<memVars, index, odbVars, storeExists, opened, pc, op, trace, lastError, nextHash>>
  /\ ops < MaxOps /\ Started

\* Index.add(p) followed by Index.writeFiles(): the file is hashed and
\* recorded in processedMap; an invalidated index is replaced by a new one
indexAdd(p) ==
  /\ pc = "idle" /\ opened
  /\ workdir[p] # 0
  /\ LET idx == IF index.valid THEN index ELSE FreshIndex
     IN index' = [idx EXCEPT !.addRelPaths = @ \cup {p}, !.processedMap[p] = workdir[p]]
  /\ index' # index
  /\ UNCHANGED <<memVars, odbVars, storeExists, opened, workdir, pc, op, trace, lastError, nextHash>>
  /\ ops < MaxOps /\ Started

\* Index.remove(p)
indexRemove(p) ==
  /\ pc = "idle" /\ opened
  /\ LET idx == IF index.valid THEN index ELSE FreshIndex
     IN index' = [idx EXCEPT !.deleteRelPaths = @ \cup {p}]
  /\ index' # index
  /\ UNCHANGED <<memVars, odbVars, storeExists, opened, workdir, pc, op, trace, lastError, nextHash>>
  /\ ops < MaxOps /\ Started

(* --------------------------- specification ---------------------------- *)
ResetInputs == {RESET_NONE, RESET_DEFAULT, RESET_DEFAULT + DETACH, DELETE_NEW_FILES}
StartPoints == {NullArg, "nope"} \cup DOMAIN commitMap

Next ==
  \/ initExt
  \/ open
  \/ settle
  \/ \E isNull \in BOOLEAN, allowEmpty \in BOOLEAN : createCommit(isNull, "m", allowEmpty)
  \/ createCommitWriteCommit
  \/ createCommitWriteHead
  \/ createCommitWriteRef
  \/ createCommitWriteLog
  \/ createCommitStoreFail
  \/ \E t \in Targets, reset \in ResetInputs : checkout(t, reset)
  \/ checkoutWalk
  \/ checkoutWriteHead
  \/ checkoutWriteHeadFail
  \/ \E p \in Paths : checkoutTrash(p)
  \/ \E p \in Paths : checkoutRestore(p)
  \/ \E p \in Paths : checkoutFileFail(p)
  \/ checkoutCheckModified
  \/ \E p \in Paths : checkoutRewrite(p)
  \/ checkoutWriteLog
  \/ \E name \in RefNames, sp \in StartPoints : createNewReference(name, sp)
  \/ createNewReferenceWriteRef
  \/ createNewReferenceWriteLog
  \/ createNewReferenceStoreFail
  \/ \E name \in RefNames : deleteReference(name)
  \/ \E removed \in BOOLEAN : deleteReferenceSettle(removed)
  \/ \E name \in RefNames : setHead(name)
  \/ \E h \in (DOMAIN commitMap) \cup {"nope"} : setHeadDetached(h)
  \/ \E p \in Paths, c \in Contents \cup {0} : editFile(p, c)
  \/ \E p \in Paths : indexAdd(p)
  \/ \E p \in Paths : indexRemove(p)

Spec == Init /\ [][Next]_vars

\* the commit graph, the references and HEAD over an empty working directory:
\* every operation of the repository, no file of the working directory
InitRepo == Init /\ workdir = EmptyTree

NextRepo ==
  \/ initExt
  \/ open
  \/ settle
  \/ \E isNull \in BOOLEAN, allowEmpty \in BOOLEAN : createCommit(isNull, "m", allowEmpty)
  \/ createCommitWriteCommit
  \/ createCommitWriteHead
  \/ createCommitWriteRef
  \/ createCommitWriteLog
  \/ createCommitStoreFail
  \/ \E t \in Targets, reset \in {RESET_DEFAULT, RESET_DEFAULT + DETACH} : checkout(t, reset)
  \/ checkoutWalk
  \/ checkoutWriteHead
  \/ checkoutWriteHeadFail
  \/ checkoutCheckModified
  \/ checkoutWriteLog
  \/ \E name \in RefNames, sp \in StartPoints : createNewReference(name, sp)
  \/ createNewReferenceWriteRef
  \/ createNewReferenceWriteLog
  \/ createNewReferenceStoreFail
  \/ \E name \in RefNames : deleteReference(name)
  \/ \E removed \in BOOLEAN : deleteReferenceSettle(removed)
  \/ \E name \in RefNames : setHead(name)
  \/ \E h \in (DOMAIN commitMap) \cup {"nope"} : setHeadDetached(h)
  \/ indexRemove("a.txt")

SpecRepo == InitRepo /\ [][NextRepo]_vars

\* findCommitByHash over the histories that createCommit and setHeadDetached
\* build: literal hashes, HEAD~N, chained and malformed expressions
HeadExpr(n) == "HEAD~" \o ToString(n)
ChainExpr(n, m) == "HEAD~" \o ToString(n) \o "~" \o ToString(m)
MalformedExprs == {"HEAD~x", "HEAD~", "HEAD~-1", "HEAD~1x", "HEAD~1~x", "HEAD~~1"}
Exprs ==
  {HeadExpr(n) : n \in 0..MaxWalk}
    \cup {ChainExpr(n, m) : n, m \in 0..MaxWalk}
    \cup MalformedExprs
    \cup CommitHashes \cup {"nope"}

NextFind ==
  \/ initExt
  \/ settle
  \/ createCommit(TRUE, "m", TRUE)
  \/ createCommitWriteCommit
  \/ createCommitWriteHead
  \/ createCommitWriteRef
  \/ createCommitWriteLog
  \/ \E h \in DOMAIN commitMap : setHeadDetached(h)
  \/ \E e \in Exprs : findCommit(e)

SpecFind == InitRepo /\ [][NextFind]_vars

\* open over the stores it may find on disk: one or two commit records, up to
\* two reference records, and a HEAD record that is empty, a reference name
\* or a hash
StoredCommits ==
  LET c1 == [hash |-> HashOf(1), message |-> "Created Project", root |-> EmptyTree, parents |-> <<NoHash>>]
      c2 == [hash |-> HashOf(2), message |-> "m", root |-> EmptyTree, parents |-> <<HashOf(1)>>]
  IN {<<c1>>, <<c1, c2>>}
StoredRefs ==
  LET recs == [name : RefNames, hash : {HashOf(1), HashOf(2)}, start : {NoHash}]
  IN {<<>>} \cup {<<r>> : r \in recs}
       \cup {q \in {<<r1, r2>> : r1 \in recs, r2 \in recs} : q[1].name # q[2].name}
StoredHeads == {""} \cup RefNames \cup {HashOf(1), HashOf(2), ForeignHash}

InitOpen ==
  /\ commits = <<>>
  /\ commitMap = [h \in {} |-> NoCommit]
  /\ references = <<>>
  /\ head = [name |-> "HEAD", hash |-> NoHash]
  /\ index = FreshIndex
  /\ odbCommits \in StoredCommits
  /\ odbHead \in StoredHeads
  /\ odbRefs \in StoredRefs
  /\ storeExists = TRUE
  /\ opened = FALSE
  /\ workdir = EmptyTree
  /\ pc = "idle"
  /\ op = NoOp
  /\ trace = <<>>
  /\ lastError = ""
  /\ nextHash = 0
  /\ ops = 0

NextOpen ==
  \/ open
  \/ settle

SpecOpen == InitOpen /\ [][NextOpen]_vars

\* the working directory, the index and the commit trees: files are edited,
\* staged, committed and checked out; the references stay as createCommit
\* leaves them
TreeTargets ==
  {StrTarget(s) : s \in {"Main"} \cup (DOMAIN commitMap)}
    \cup {CommitTarget(commits[i]) : i \in 1..Len(commits)}

NextTree ==
  \/ initExt
  \/ settle
  \/ \E allowEmpty \in BOOLEAN : createCommit(FALSE, "m", allowEmpty)
  \/ createCommitWriteCommit
  \/ createCommitWriteHead
  \/ createCommitWriteRef
  \/ createCommitWriteLog
  \/ createCommitStoreFail
  \/ \E t \in TreeTargets, reset \in ResetInputs : checkout(t, reset)
  \/ checkoutWalk
  \/ checkoutWriteHead
  \/ checkoutWriteHeadFail
  \/ \E p \in Paths : checkoutTrash(p)
  \/ \E p \in Paths : checkoutRestore(p)
  \/ \E p \in Paths : checkoutFileFail(p)
  \/ checkoutCheckModified
  \/ \E p \in Paths : checkoutRewrite(p)
  \/ checkoutWriteLog
  \/ \E p \in Paths, c \in Contents \cup {0} : editFile(p, c)
  \/ \E p \in Paths : indexAdd(p)
  \/ \E p \in Paths : indexRemove(p)

SpecTree == Init /\ [][NextTree]_vars

\* the chunked hasher over files at the size boundaries: below, at and above
\* 20 MB, and below, at and above each multiple of 100 MB
FileSizes ==
  {0, 1, MB20 - 1, MB20, MB20 + 1, 50000000}
    \cup {k * MB100 - 1 : k \in 1..MaxBlocks}
    \cup {k * MB100 : k \in 1..MaxBlocks}
    \cup {k * MB100 + 1 : k \in 1..(MaxBlocks - 1)}
\* the content of each 100 MB range of a file of that size
FileData(size) == [1..(IF size = 0 THEN 1 ELSE Ceil(size, MB100)) -> Contents]

NextHash ==
  \/ \E size \in FileSizes : \E data \in FileData(size) : calculateFileHash(size, data)
  \/ \E i \in 1..MaxBlocks : partHashResolve(i)
  \/ \E i \in 1..MaxBlocks : partHashReject(i)
  \/ calculateFileHashFold
  \/ \E changed \in SUBSET (1..MaxBlocks), withBlocks \in BOOLEAN : compareFileHash(changed, withBlocks)
  \/ compareFileHashFold
  \/ settle

SpecHash == InitRepo /\ [][NextHash]_vars

\* normalize over every path string of at most MaxPathLen characters from a
\* name character, the dot, the slash and the backslash
PathChars == {"a", ".", "/", "\\"}
RECURSIVE PathStrings(_)
PathStrings(n) ==
  IF n = 0 THEN {""}
  ELSE PathStrings(n - 1) \cup {s \o c : s \in PathStrings(n - 1), c \in PathChars}

InitPath ==
  /\ commits = <<>>
  /\ commitMap = [h \in {} |-> NoCommit]
  /\ references = <<>>
  /\ head = [name |-> "HEAD", hash |-> NoHash]
  /\ index = FreshIndex
  /\ odbCommits = <<>>
  /\ odbHead = ""
  /\ odbRefs = <<>>
  /\ storeExists = FALSE
  /\ opened = FALSE
  /\ workdir = EmptyTree
  /\ pc = "idle"
  /\ op \in {[NoOp EXCEPT !.arg = p] : p \in PathStrings(MaxPathLen)}
  /\ trace = <<>>
  /\ lastError = ""
  /\ nextHash = 0
  /\ ops = 0

NextPath == normalizeCall

SpecPath == InitPath /\ [][NextPath]_vars

\* initExt with a commondir: the working directory /a/p and commondirs that
\* are the working directory, inside it, beside it and above it
Workdirs == {"/a/p", "/a/p/", "/a//p"}
Commondirs == {"/a/p", "/a/p/", "/a/p/s", "/a/p-s", "/a/ps/", "/a", "/b", "/b/p", "/a/s",
               "/a/p/../q", "/a/q/../p"}

NextInit ==
  \/ \E w \in Workdirs, c \in Commondirs : initExtCommondir(w, c)
  \/ settle
  \/ createCommit(TRUE, "m", TRUE)
  \/ createCommitWriteCommit
  \/ createCommitWriteHead
  \/ createCommitWriteRef
  \/ createCommitWriteLog
  \/ createCommitStoreFail

SpecInit == InitRepo /\ [][NextInit]_vars

\* getStatus over the working directories and HEAD commits that editing,
\* staging and committing files produce
Filters == {0, INCLUDE_UNTRACKED, INCLUDE_UNMODIFIED, INCLUDE_UNTRACKED + INCLUDE_UNMODIFIED}

NextStatus ==
  \/ initExt
  \/ settle
  \/ createCommit(FALSE, "m", FALSE)
  \/ createCommitWriteCommit
  \/ createCommitWriteHead
  \/ createCommitWriteRef
  \/ createCommitWriteLog
  \/ \E p \in Paths, c \in Contents \cup {0} : editFile(p, c)
  \/ \E p \in Paths : indexAdd(p)
  \/ \E filter \in Filters, ignoreFile \in BOOLEAN : getStatus(filter, ignoreFile)

SpecStatus == Init /\ [][NextStatus]_vars

\* createCommit on a repository that holds the first commit and one commit
\* of a tree made with an earlier index; the working directory was edited
\* since, and a new index has staged additions and removals
InitCommit ==
  \E T \in Trees :
    LET c1 == [hash |-> HashOf(1), message |-> "Created Project", root |-> EmptyTree,
               parents |-> <<NoHash>>]
        c2 == [hash |-> HashOf(2), message |-> "m", root |-> T, parents |-> <<HashOf(1)>>]
    IN /\ commits = <<c1, c2>>
       /\ commitMap = [h \in {HashOf(1), HashOf(2)} |-> IF h = HashOf(1) THEN c1 ELSE c2]
       /\ references = <<[name |-> "Main", hash |-> HashOf(1), start |-> HashOf(1)]>>
       /\ head \in {[name |-> "Main", hash |-> HashOf(2)], [name |-> "HEAD", hash |-> HashOf(2)]}
       /\ odbCommits = <<c1, c2>>
       /\ odbHead = "Main"
       /\ odbRefs = <<[name |-> "Main", hash |-> HashOf(2), start |-> NoHash]>>
       /\ storeExists = TRUE
       /\ opened = TRUE
       /\ workdir \in Trees
       /\ \E A \in SUBSET WorkFiles, D \in SUBSET Paths :
            index = [addRelPaths |-> A, deleteRelPaths |-> D,
                     processedMap |-> [p \in Paths |-> IF p \in A THEN workdir[p] ELSE 0],
                     valid |-> TRUE]
       /\ pc = "idle"
       /\ op = NoOp
       /\ trace = <<>>
       /\ lastError = ""
       /\ nextHash = 2
       /\ ops = 0

NextCommit ==
  \/ settle
  \/ \E allowEmpty \in BOOLEAN : createCommit(FALSE, "m", allowEmpty)
  \/ createCommitWriteCommit
  \/ createCommitWriteHead
  \/ createCommitWriteRef
  \/ createCommitWriteLog
  \/ createCommitStoreFail

SpecCommit == InitCommit /\ [][NextCommit]_vars

\* walkCommit over the histories that createCommit builds; the walk is
\* synchronous code, so a started walk keeps running
NextWalk ==
  \/ initExt
  \/ settle
  \/ createCommit(TRUE, "m", TRUE)
  \/ createCommitWriteCommit
  \/ createCommitWriteHead
  \/ createCommitWriteRef
  \/ createCommitWriteLog
  \/ createCommitStoreFail
  \/ \E h \in (DOMAIN commitMap) \cup {NullArg} : walkCommit(h)
  \/ walkCommitStep

SpecWalk == InitRepo /\ [][NextWalk]_vars /\ WF_vars(walkCommitStep)

\* copyFile on the machines of the model: one or two drives per platform, the
\* source and the destination on the first or on the second drive, source
\* files below, at and above 1 MB, with and without the block-clone script
Platforms == {"darwin", "win32", "linux", "freebsd"}
MountPaths(platform) ==
  IF platform = "win32" THEN {"C:/", "D:/"}
  ELSE IF platform = "darwin" THEN {"/", "/v/", "/System/V"}
  ELSE {"/", "/v/"}
RawFilesystems(platform) ==
  IF platform = "win32" THEN {"ReFS", "NTFS", "exFAT"}
  ELSE IF platform = "darwin" THEN {"AppleAPFSMedia", "other"}
  ELSE {"other"}
DriveLists(platform) ==
  LET drive == [path : MountPaths(platform), raw : RawFilesystems(platform)]
  IN {<<d>> : d \in drive}
       \cup {q \in {<<d1, d2>> : d1 \in drive, d2 \in drive} : q[1].path # q[2].path}
FilePaths(platform) == IF platform = "win32" THEN {"C:/a", "D:/a"} ELSE {"/a", "/v/a"}
FileSizesMB1 == {MB1 - 1, MB1, MB1 + 1}

\* no repository is involved: the inputs of the call are held in op
InitInputs(inputs) ==
  /\ commits = <<>>
  /\ commitMap = [h \in {} |-> NoCommit]
  /\ references = <<>>
  /\ head = [name |-> "HEAD", hash |-> NoHash]
  /\ index = FreshIndex
  /\ odbCommits = <<>>
  /\ odbHead = ""
  /\ odbRefs = <<>>
  /\ storeExists = FALSE
  /\ opened = FALSE
  /\ workdir = EmptyTree
  /\ pc = "idle"
  /\ op \in inputs
  /\ trace = <<>>
  /\ lastError = ""
  /\ nextHash = 0
  /\ ops = 0

CopyInputs ==
  UNION {{[NoIo EXCEPT !.platform = platform, !.drives = drives, !.src = src, !.dst = dst,
                       !.size = size, !.script = script] :
            drives \in DriveLists(platform), src \in FilePaths(platform),
            dst \in FilePaths(platform), size \in FileSizesMB1, script \in BOOLEAN} :
         platform \in Platforms}

InitCopy == InitInputs({[NoOp EXCEPT !.io = io] : io \in CopyInputs})

NextCopy ==
  \/ ioInit
  \/ copyFile
  \/ \E ok \in BOOLEAN : copyFileExit(ok)

SpecCopy == InitCopy /\ [][NextCopy]_vars

\* performWriteLockChecks('/d', relPaths) while other processes hold up to two
\* files open, inside and outside the directory, with each access mode lsof
\* reports, and lsof ends with exit code 0, 1 or 2
LsofHandles ==
  [pid : {"7"}, processname : {"vi"}, access : {" ", "r", "w", "u", "W"},
   filepath : {"/d/a", "/d/b", "/x/a"}]
LsofListings ==
  {<<>>} \cup {<<fh>> : fh \in LsofHandles}
         \cup {<<fh1, fh2>> : fh1 \in LsofHandles, fh2 \in {fh \in LsofHandles : fh.access \in {"r", "w"}}}
LockInputs ==
  {[NoIo EXCEPT !.platform = platform, !.dir = "/d", !.relPaths = relPaths,
                !.listing = listing, !.code = code] :
     platform \in {"darwin", "linux"}, relPaths \in {<<>>, <<"a">>, <<"a", "b">>},
     listing \in LsofListings, code \in {0, 1, 2}}

InitLock == InitInputs({[NoOp EXCEPT !.io = io] : io \in LockInputs})

NextLock ==
  \/ performWriteLockChecks
  \/ lsofData
  \/ lsofExit

SpecLock == InitLock /\ [][NextLock]_vars

\* the two IgnoreManager classes over user ignore files of up to MaxLines
\* lines: patterns, negated patterns and a comment; ignored is asked for
\* paths that the built-in pattern **/*.log matches and for one it does not
IgnoreLines == {"a.log", "!a.log", "a*", "!*.log", "// c"}
RECURSIVE IgnoreFiles(_)
IgnoreFiles(n) ==
  IF n = 0 THEN {<<>>}
  ELSE IgnoreFiles(n - 1) \cup {Append(f, line) : f \in IgnoreFiles(n - 1), line \in IgnoreLines}
IgnorePaths == {"a.log", "b.log", "a.txt", "d/a.log"}

InitIgnore ==
  InitInputs({[NoOp EXCEPT !.arg = filepath, !.ig = [NoIgnore EXCEPT !.manager = manager, !.lines = lines]] :
                filepath \in IgnorePaths, manager \in {"glob", "regex"}, lines \in IgnoreFiles(MaxLines)})

NextIgnore ==
  \/ ignoreLoad
  \/ ignoredCall

SpecIgnore == InitIgnore /\ [][NextIgnore]_vars

(* ------------------------------- claims ------------------------------- *)
\* the index of the running createCommit has an added or a deleted path
NonEmptyIndex(idx) == idx.addRelPaths # {} \/ idx.deleteRelPaths # {}

\* C1: after createCommit succeeded on an index with at least one added or
\* deleted path, HEAD.hash is the new commit's hash, and the reference HEAD is
\* attached to, as held in the reference list, has the new commit's hash too.
C1_HeadAndAttachedRefAdvance ==
  (pc = "done" /\ op.kind = "createCommit" /\ NonEmptyIndex(op.idx))
    => /\ head.hash = op.commit.hash
       /\ \A i \in 1..Len(references) :
            references[i].name = head.name => references[i].hash = op.commit.hash

\* C2: checkout of a raw commit hash that two or more references point to
\* does not fail: it goes on with targetRef unset and that commit as target,
\* and a checkout that ran with targetRef unset ends with a detached HEAD at
\* the target commit.
C2_RawHashOfManyRefsDetaches ==
  /\ [][\A h \in DOMAIN commitMap, reset \in ResetInputs :
          (findReferenceByName(h) = NoRef /\ Len(filterReferenceByHash(h)) >= 2
             /\ checkout(StrTarget(h), reset))
            => (pc' = "co_walk" /\ op'.ref = NoRef /\ op'.commit.hash = h)]_vars
  /\ [](pc = "done" /\ op.kind = "checkout" /\ op.ref = NoRef
          => head = [name |-> "HEAD", hash |-> op.commit.hash])

\* the effects of the running operation include one of that kind
HasEv(kind) == \E i \in 1..Len(trace) : trace[i].ev = kind
\* a file of the working directory was moved to trash, restored or rewritten,
\* or such a step failed
FileEvs == {"trash", "restore", "rewrite", "fail"}
FileStepStarted == \E i \in 1..Len(trace) : trace[i].ev \in FileEvs

\* C3 as stated: after a successful checkout(target, DEFAULT) to commit c the
\* non-ignored files of the working directory are exactly the paths of
\* c.root, each with the content hash recorded in c.root.
C3_NonIgnoredFilesEqualTree ==
  (pc = "done" /\ op.kind = "checkout" /\ op.reset = RESET_DEFAULT)
    => /\ {p \in WorkFiles : ~ignored(p)} = TreePaths(op.commit.root)
       /\ \A p \in TreePaths(op.commit.root) : workdir[p] = op.commit.root[p]

\* C3 amended: after a successful checkout(target, DEFAULT) to commit c the
\* files of the working directory, ignored or not, are exactly the paths of
\* c.root, each with the content hash recorded in c.root.
C3_AllFilesEqualTree ==
  (pc = "done" /\ op.kind = "checkout" /\ op.reset = RESET_DEFAULT)
    => /\ WorkFiles = TreePaths(op.commit.root)
       /\ \A p \in TreePaths(op.commit.root) : workdir[p] = op.commit.root[p]

C3_Witness ==
  /\ pc = "done" /\ op.kind = "checkout" /\ op.reset = RESET_DEFAULT
  /\ HasEv("trash")
  /\ HasEv("restore") \/ HasEv("rewrite")

\* C4: in checkout every working-tree mutation comes after the in-memory
\* HEAD update and the write of the HEAD record; once a file step has started
\* HEAD in memory is at the target commit, the HEAD record is the one written
\* for it and the commit the stored HEAD denotes is the target commit, and a
\* checkout that failed in a file step wrote no log entry.
C4_HeadPersistedBeforeFiles ==
  op.kind = "checkout" =>
    /\ \A i \in 1..Len(trace) : trace[i].ev \in FileEvs =>
         \E j, k \in 1..(i - 1) : j < k /\ trace[j].ev = "head" /\ trace[k].ev = "writeHead"
    /\ FileStepStarted => /\ head.hash = op.commit.hash
                          /\ odbHead = HeadRecord(head)
                          /\ headRef.hash = op.commit.hash
    /\ (pc = "failed" /\ FileStepStarted) => ~HasEv("log")

\* the effects of createCommit in the order the code performs them
CommitSteps == <<Ev("mem", ""), Ev("writeCommit", ""), Ev("writeHead", ""), Ev("writeRef", ""), Ev("log", "")>>
\* the effects of the createCommit run by the operation (initExt logs first)
CommitTrace == IF op.kind = "initExt" THEN Tail(trace) ELSE trace

\* C5: createCommit changes commits, commitMap and HEAD in memory before any
\* store write, then writes the commit record, the HEAD record, the reference
\* record and the log entry in this order, each after the previous one
\* completed; after a failed step no later step has run.
C5_CommitPersistenceOrder ==
  (op.kind \in {"createCommit", "initExt"} /\ op.commit # NoCommit) =>
    /\ Len(CommitTrace) <= Len(CommitSteps)
    /\ CommitTrace = SubSeq(CommitSteps, 1, Len(CommitTrace))
    /\ HasEv("mem")
    /\ commitMapGet(op.commit.hash) = op.commit
    /\ \E i \in 1..Len(commits) : commits[i] = op.commit
    /\ head.hash = op.commit.hash
    /\ HasEv("writeCommit") <=> (\E i \in 1..Len(odbCommits) : odbCommits[i] = op.commit)
    /\ HasEv("writeHead") => odbHead = HeadRecord(head)
    /\ HasEv("writeRef") <=> (\E i \in 1..Len(odbRefs) : odbRefs[i].hash = op.commit.hash)

C5_Witness ==
  /\ pc = "failed" /\ op.kind = "createCommit"
  /\ HasEv("writeHead") /\ ~HasEv("writeRef")

\* C6: createCommit without allowEmpty on an index with no added and no
\* deleted path fails with NothingToCommit and changes nothing; with
\* allowEmpty the same call passes and creates a commit.
C6_EmptyIndexCommit ==
  [][\A allowEmpty \in BOOLEAN :
       (index.valid /\ ~NonEmptyIndex(index) /\ createCommit(FALSE, "m", allowEmpty))
         => IF allowEmpty
              THEN pc' = "cc_writeCommit" /\ Len(commits') = Len(commits) + 1
              ELSE /\ pc' = "failed" /\ lastError' = "NothingToCommit"
                   /\ UNCHANGED <<memVars, odbVars, index>>]_vars

\* C7: the hashes of the commits in commits[] are exactly the keys of
\* commitMap, and commitMap maps each hash to the commit with that hash.
C7_CommitsMatchCommitMap ==
  /\ {commits[i].hash : i \in 1..Len(commits)} = DOMAIN commitMap
  /\ \A i \in 1..Len(commits) : commitMap[commits[i].hash] = commits[i]

C7_Witness ==
  /\ pc = "done" /\ op.kind = "open"
  /\ Len(commits) >= 2
  /\ Len(references) >= 2

\* C8: HEAD.hash is unset or a key of commitMap, in every reachable state.
C8_HeadHashKnown == head.hash = NoHash \/ head.hash \in DOMAIN commitMap

\* C9: once the first commit exists, every reference of the reference list
\* has a hash that is a key of commitMap.
C9_RefHashesKnown ==
  Len(commits) > 0 => \A i \in 1..Len(references) : references[i].hash \in DOMAIN commitMap

\* C10: no two references of the reference list have the same name.
C10_RefNamesUnique ==
  \A i, j \in 1..Len(references) : references[i].name = references[j].name => i = j

C10_Witness ==
  /\ Len(references) >= 2
  /\ pc = "failed" /\ op.kind = "createNewReference" /\ lastError = "RefExists"

\* C11: HEAD's name is 'HEAD' or the name of a reference of the reference
\* list, and no reference of the list is named 'HEAD', in every reachable state.
C11_HeadNameValid ==
  /\ head.name = "HEAD" \/ refExists(head.name)
  /\ ~refExists("HEAD")

\* C12: createNewReference fails with RefExists when the name is taken and
\* with InvalidStartPoint when the start point (HEAD.hash for null) is not a
\* key of commitMap, leaving references, HEAD, commits and the stored records
\* unchanged; otherwise it adds exactly one reference whose hash and start are
\* the start point.
C12_CreateNewReferenceContract ==
  /\ [][(pc = "idle" /\ op'.kind = "createNewReference") =>
        \A name \in RefNames, sp \in StartPoints :
          createNewReference(name, sp) =>
            LET startPoint == IF sp = NullArg THEN head.hash ELSE sp
            IN IF \E i \in 1..Len(references) : references[i].name = name
                 THEN /\ pc' = "failed" /\ lastError' = "RefExists"
                      /\ UNCHANGED <<memVars, odbVars>>
               ELSE IF startPoint \notin DOMAIN commitMap
                 THEN /\ pc' = "failed" /\ lastError' = "InvalidStartPoint"
                      /\ UNCHANGED <<memVars, odbVars>>
               ELSE /\ pc' # "failed"
                    /\ references' = Append(references, [name |-> name, hash |-> startPoint, start |-> startPoint])
                    /\ UNCHANGED <<commits, commitMap, head>>]_vars
  /\ []((pc = "done" /\ op.kind = "createNewReference") =>
          /\ op.ref.hash = op.ref.start /\ op.ref.hash \in DOMAIN commitMap
          /\ Len(SelectSeq(references, LAMBDA r : r.name = op.ref.name)) = 1
          /\ findReferenceByName(op.ref.name) = op.ref
          /\ findRef(odbRefs, op.ref.name) = op.ref)

C12_Witness ==
  /\ pc = "done" /\ op.kind = "createNewReference"
  /\ Len(references) >= 2
  /\ op.ref.hash # head.hash

C14_CheckoutHeadAttachment ==
  /\ []((pc = "done" /\ op.kind = "checkout") =>
          /\ head.hash = op.commit.hash
          /\ head.name = IF HasFlag(op.reset, DETACH) \/ op.ref = NoRef THEN "HEAD" ELSE op.ref.name)
  /\ [][(pc = "idle" /\ pc' = "co_walk") =>
        \A s \in RefNames \cup DOMAIN commitMap :
          LET t == StrTarget(s) IN
          checkout(t, op'.reset) =>
            /\ (\E i \in 1..Len(references) : references[i].name = t.str) =>
                 /\ op'.ref.name = t.str
                 /\ \E i \in 1..Len(references) : references[i] = op'.ref
                 /\ op'.commit.hash = op'.ref.hash
            /\ (/\ \A i \in 1..Len(references) : references[i].name # t.str
                /\ Cardinality({i \in 1..Len(references) : references[i].hash = t.str}) = 1) =>
                 /\ op'.ref.hash = t.str
                 /\ \E i \in 1..Len(references) : references[i] = op'.ref
                 /\ op'.commit.hash = t.str]_vars

C14_Witness ==
  /\ pc = "done" /\ op.kind = "checkout"
  /\ op.ref # NoRef /\ ~HasFlag(op.reset, DETACH)
  /\ head.name = "feat"

\* the string resolves to no commit: it is neither the name of a reference nor
\* a key of commitMap, and findCommitByHash yields no commit for it
Unresolvable(str) ==
  /\ \A i \in 1..Len(references) : references[i].name # str /\ references[i].hash # str
  /\ str \notin DOMAIN commitMap
  /\ findCommitByHash(str).commit = NoCommit

\* C15 as stated: checkout of a string that resolves to no commit fails with
\* UnknownTarget and leaves HEAD in memory and in the store, the references,
\* the commits, the log and the working directory unchanged.
C15_UnresolvableIsUnknownTarget ==
  [][(pc = "idle" /\ op'.kind = "checkout") =>
     \A str \in RefNames \cup {"nope", "HEAD~1", "HEAD~x"} :
       (Unresolvable(str) /\ checkout(StrTarget(str), op'.reset)) =>
          /\ pc' = "failed" /\ lastError' = "UnknownTarget"
          /\ trace' = <<>>
          /\ UNCHANGED <<memVars, odbVars, workdir>>]_vars

\* C15 amended: checkout of a string that resolves to no commit fails and
\* leaves HEAD in memory and in the store, the references, the commits, the
\* log and the working directory unchanged; the error is UnknownTarget for a
\* string without '~' and for an expression findCommitByHash answers with
\* null, and otherwise the InvalidHashSyntax or OutOfHistory error raised by
\* findCommitByHash.
C15_UnresolvableFails ==
  [][(pc = "idle" /\ op'.kind = "checkout") =>
     \A str \in RefNames \cup {"nope", "HEAD~1", "HEAD~x"} :
       (Unresolvable(str) /\ checkout(StrTarget(str), op'.reset)) =>
          /\ pc' = "failed"
          /\ lastError' = IF TildePos(str) = 0 \/ findCommitByHash(str).err = ""
                            THEN "UnknownTarget" ELSE findCommitByHash(str).err
          /\ lastError' \in {"UnknownTarget", "InvalidHashSyntax", "OutOfHistory"}
          /\ trace' = <<>>
          /\ UNCHANGED <<memVars, odbVars, workdir>>]_vars

C15_Witness ==
  /\ pc = "failed" /\ op.kind = "checkout"
  /\ lastError = "InvalidHashSyntax"
  /\ Len(commits) >= 2

\* the commit has a first parent that is a commit of the repository
HasParent(c) == Len(c.parents) > 0 /\ c.parents[1] \in DOMAIN commitMap
\* number of first-parent ancestors of a commit
RECURSIVE AncestorCount(_)
AncestorCount(c) == IF HasParent(c) THEN 1 + AncestorCount(commitMap[c.parents[1]]) ELSE 0
\* the commit reached from c by following the first parent n times
RECURSIVE NthParent(_, _)
NthParent(c, n) == IF n = 0 THEN c ELSE NthParent(commitMap[c.parents[1]], n - 1)
\* findCommitByHash was called and has returned or thrown
FindEnded == pc \in {"done", "failed"} /\ op.kind = "findCommitByHash"

\* C16: findCommitByHash('HEAD~N') returns the commit reached from HEAD's
\* commit by following the first parent exactly N times, HEAD~N~M has the same
\* outcome as HEAD~(N+M), and a literal hash returns the commit with that hash
\* or null when it is unknown.
C16_AncestorExpressions ==
  (FindEnded /\ commitMapHas(head.hash)) =>
    /\ \A n \in 0..MaxWalk :
         (op.arg = HeadExpr(n) /\ n <= AncestorCount(commitMap[head.hash])) =>
           (pc = "done" /\ op.commit = NthParent(commitMap[head.hash], n))
    /\ \A n, m \in 0..MaxWalk :
         op.arg = ChainExpr(n, m) =>
           /\ findCommitByHash(HeadExpr(n + m)).commit = op.commit
           /\ findCommitByHash(HeadExpr(n + m)).err = lastError
    /\ op.arg \in CommitHashes \cup {"nope"} =>
         /\ pc = "done"
         /\ op.commit = IF op.arg \in DOMAIN commitMap THEN commitMap[op.arg] ELSE NoCommit
         /\ op.arg \in DOMAIN commitMap => op.commit.hash = op.arg

C16_Witness ==
  /\ FindEnded /\ pc = "done"
  /\ op.arg = ChainExpr(1, 1)
  /\ op.commit.hash = HashOf(1) /\ head.hash = HashOf(3)

\* s is a non-negative decimal integer
IsNatural(s) == Len(s) > 0 /\ \A i \in 1..Len(s) : IsDigit(SubSeq(s, i, i))
\* the expression contains '~' and a segment after the first is not a
\* non-negative decimal integer
Malformed(e) ==
  /\ Len(Split(e)) > 1
  /\ \E i \in 2..Len(Split(e)) : ~IsNatural(Split(e)[i])

\* C17: findCommitByHash fails with InvalidHashSyntax for every expression
\* containing '~' in which a segment after the first is not a non-negative
\* decimal integer; it returns neither a commit nor null for it.
C17_MalformedIsInvalidSyntax ==
  (FindEnded /\ Malformed(op.arg)) => (pc = "failed" /\ lastError = "InvalidHashSyntax")

OpenEnded == pc \in {"done", "failed"} /\ op.kind = "open"

\* C19: open attaches HEAD to the loaded reference whose name is the stored
\* HEAD value and copies its hash; any other non-empty value is taken as a
\* raw hash and HEAD is detached; with an empty value HEAD attaches to the
\* first reference if there is one, else open fails with NoHead.
C19_OpenResolvesHead ==
  OpenEnded =>
    IF odbHead # "" /\ \E i \in 1..Len(odbRefs) : odbRefs[i].name = odbHead
      THEN /\ pc = "done" /\ head.name = odbHead
           /\ \E i \in 1..Len(odbRefs) : odbRefs[i].name = odbHead /\ head.hash = odbRefs[i].hash
    ELSE IF odbHead # ""
      THEN pc = "done" /\ head = [name |-> "HEAD", hash |-> odbHead]
    ELSE IF Len(odbRefs) > 0
      THEN pc = "done" /\ head = [name |-> odbRefs[1].name, hash |-> odbRefs[1].hash]
    ELSE pc = "failed" /\ lastError = "NoHead"

C19_Witness ==
  /\ OpenEnded /\ pc = "done"
  /\ odbHead = "" /\ Len(odbRefs) = 2
  /\ head.name = "feat" /\ head.hash = HashOf(2)

\* C20: after initExt the repository holds exactly one commit, with message
\* 'Created Project', exactly one reference, named 'Main' and pointing at
\* that commit, and HEAD attached to 'Main' with the same hash; open right
\* afterwards yields the same commits, references and HEAD.
C20_InitThenOpen ==
  /\ []((pc = "done" /\ op.kind = "initExt") =>
          /\ Len(commits) = 1 /\ commits[1].message = "Created Project"
          /\ Len(references) = 1
          /\ references[1].name = "Main" /\ references[1].hash = commits[1].hash
          /\ head = [name |-> "Main", hash |-> commits[1].hash])
  /\ [][(pc = "done" /\ op.kind = "initExt" /\ open) =>
          (pc' = "done" /\ commits' = commits /\ references' = references /\ head' = head)]_vars

\* C21: commits are append-only. Under every step of createCommit, checkout,
\* createNewReference, deleteReference, setHead and setHeadDetached a commit
\* of commitMap stays there with the same message, root tree and parents; the
\* commits change only when createCommit passes its checks, and it then adds
\* exactly one commit, to commits[] and to commitMap.
C21_CommitsAppendOnly ==
  [][op'.kind # "open" =>
       /\ \A h \in DOMAIN commitMap :
            /\ h \in DOMAIN commitMap'
            /\ commitMap'[h].message = commitMap[h].message
            /\ commitMap'[h].root = commitMap[h].root
            /\ commitMap'[h].parents = commitMap[h].parents
       /\ (pc = "idle" /\ pc' = "cc_writeCommit") <=> (commitMap' # commitMap \/ commits' # commits)
       /\ (pc = "idle" /\ pc' = "cc_writeCommit") =>
            /\ op'.kind \in {"createCommit", "initExt"}
            /\ DOMAIN commitMap' = (DOMAIN commitMap) \cup {op'.commit.hash}
            /\ op'.commit.hash \notin DOMAIN commitMap
            /\ commitMap'[op'.commit.hash] = op'.commit
            /\ commits' = Append(commits, op'.commit)]_vars

C21_Witness ==
  /\ pc = "done" /\ op.kind = "checkout"
  /\ Len(commits) = 3 /\ Cardinality(DOMAIN commitMap) = 3
  /\ head.hash = HashOf(1)

\* hashes of the persisted commit records
StoredHashes == {odbCommits[i].hash : i \in 1..Len(odbCommits)}

\* C22: in every reachable state, also after an operation stopped between two
\* of its store writes and later operations ran on the same repository object,
\* a commit hash held by the persisted HEAD record and the hash of every
\* persisted reference record is the hash of a persisted commit.
C22_PersistedPointersKnown ==
  /\ odbHead \in CommitHashes \cup {ForeignHash} => odbHead \in StoredHashes
  /\ \A i \in 1..Len(odbRefs) : odbRefs[i].hash \in StoredHashes

\* C23: after every completed createCommit, checkout, setHead and
\* setHeadDetached the persisted HEAD record is the one written for the
\* in-memory HEAD, and the HEAD that open derives from the store has the same
\* name and the same hash as the in-memory HEAD.
C23_HeadPersistedAfterChange ==
  (pc = "done" /\ op.kind \in {"createCommit", "checkout", "setHead", "setHeadDetached"}) =>
    /\ odbHead = HeadRecord(head)
    /\ headRef = head

\* getStatus has returned or has failed
StatusEnded == pc \in {"done", "failed"} /\ op.kind = "getStatus"
\* the path is matched by the ignore file of the working directory
IgnoredPath(p) == op.ignoreFile /\ ignoreFileIgnored(p)
\* the paths the result has an entry of that status for
PathsWith(status) == {e.path : e \in {x \in op.status : x.status = status}}

\* C24: getStatus(filter), with or without an ignore file in the working
\* directory, returns successfully; WT_DELETED exactly for the non-ignored
\* paths of the HEAD tree that are absent from the working directory,
\* whatever the filter; WT_NEW exactly for the non-ignored files absent from
\* the HEAD tree with INCLUDE_UNTRACKED and for none without; every path in
\* both has WT_MODIFIED or, only with INCLUDE_UNMODIFIED, UNMODIFIED; no path
\* has two entries.
C24_GetStatusEntries ==
  (StatusEnded /\ commitMapHas(head.hash)) =>
    LET old == TreePaths(commitMap[head.hash].root)
        tree == commitMap[head.hash].root
    IN /\ pc = "done"
       /\ PathsWith(WT_DELETED) = {p \in old \ WorkFiles : ~IgnoredPath(p)}
       /\ PathsWith(WT_NEW) = IF HasFlag(op.filter, INCLUDE_UNTRACKED)
                                THEN {p \in WorkFiles \ old : ~IgnoredPath(p)} ELSE {}
       /\ PathsWith(WT_MODIFIED) \cup PathsWith(UNMODIFIED) \subseteq WorkFiles \cap old
       /\ \A p \in WorkFiles \cap old :
            /\ (workdir[p] # tree[p] /\ ~IgnoredPath(p)) => p \in PathsWith(WT_MODIFIED)
            /\ p \in PathsWith(WT_MODIFIED) => workdir[p] # tree[p]
            /\ p \in PathsWith(UNMODIFIED) <=> (workdir[p] = tree[p] /\ HasFlag(op.filter, INCLUDE_UNMODIFIED))
       /\ \A e1, e2 \in op.status : e1.path = e2.path => e1 = e2
       /\ \A e \in op.status : e.status \in {WT_NEW, WT_MODIFIED, WT_DELETED, UNMODIFIED}

\* calculateFileHash has resolved
HashFileDone == pc = "done" /\ op.kind = "hashFile"
\* the number of 100 MB blocks a file of that size is cut into
BlockCount(size) == CHOOSE k \in 0..(MaxBlocks + 1) : (k - 1) * MB100 < size /\ size <= k * MB100

\* C25: for a file of at least 20 MB calculateFileHash returns exactly
\* ceil(size / 100 MB) blocks, block i with start = i * 100 MB and inclusive
\* end = min((i + 1) * 100 MB, size) - 1: the first block starts at 0, each
\* block starts one byte after the end of the previous one and the last block
\* ends at size - 1; below 20 MB no block list is returned.
C25_BlockRanges ==
  HashFileDone =>
    IF op.h.size >= MB20
      THEN /\ op.h.hasBlocks
           /\ Len(op.h.hashBlocks) = BlockCount(op.h.size)
           /\ \A i \in 0..(BlockCount(op.h.size) - 1) :
                /\ op.h.hashBlocks[i + 1].start = i * MB100
                /\ op.h.hashBlocks[i + 1].end = Min((i + 1) * MB100, op.h.size) - 1
           /\ op.h.hashBlocks[1].start = 0
           /\ \A i \in 2..Len(op.h.hashBlocks) :
                op.h.hashBlocks[i].start = op.h.hashBlocks[i - 1].end + 1
           /\ op.h.hashBlocks[Len(op.h.hashBlocks)].end = op.h.size - 1
      ELSE ~op.h.hasBlocks /\ op.h.hashBlocks = <<>>

C25_Witness ==
  /\ HashFileDone
  /\ op.h.size = 2 * MB100 + 1
  /\ Len(op.h.hashBlocks) = 3 /\ op.h.hashBlocks[3].end = op.h.hashBlocks[3].start

\* compareFileHash has resolved or rejected
CompareEnded == pc \in {"done", "failed"} /\ op.kind = "compareFileHash"

\* C26: compareFileHash(f, r.filehash, r.hashBlocks) with r = hashFile(f) on
\* the unchanged file resolves to true, for files of every size, with the
\* block list and without it.
C26_RoundTrip ==
  (CompareEnded /\ op.h.changed = {} /\ ~HasEv("fail")) => (pc = "done" /\ op.h.equal)

\* C27: for a file of at least 20 MB the file hash is the digest of the block
\* hashes in ascending block index order and the returned block list is in
\* that order, whatever the order in which the block tasks completed.
C27_FoldInIndexOrder ==
  (HashFileDone /\ op.h.size >= MB20) =>
    LET n == BlockCount(op.h.size)
        blockHash(i) == sha256(Bytes(op.h, (i - 1) * MB100, Min(i * MB100, op.h.size) - 1))
    IN /\ Len(op.h.hashBlocks) = n
       /\ \A i \in 1..n : op.h.hashBlocks[i].hash = blockHash(i)
                           /\ op.h.hashBlocks[i].start = (i - 1) * MB100
       /\ op.h.filehash = sha256(Concat([i \in 1..n |-> blockHash(i)]))

C27_Witness ==
  /\ HashFileDone
  /\ Len(trace) = 3
  /\ CompletionOrder = <<3, 1, 2>>

\* C28: on a file of at least 20 MB compareFileHash resolves to false, and
\* does not reject, when an expected block hash differs from the computed
\* hash of the same index and no read fails, whichever block task finds a
\* difference first; a read error rejects and is not turned into false.
C28_MismatchIsFalse ==
  (CompareEnded /\ op.h.size >= MB20) =>
    /\ HasEv("mismatch") => (pc = "done" /\ ~op.h.equal)
    /\ (/\ op.h.hasExpected
        /\ \E i \in 1..Len(op.h.blocks) : op.h.expected[i] # getPartHash(op.h, op.h.blocks[i]).hash
        /\ ~HasEv("fail")) => (pc = "done" /\ ~op.h.equal /\ HasEv("mismatch"))
    /\ HasEv("fail") => (pc = "failed" /\ lastError = "IoError")

C28_Witness ==
  /\ CompareEnded /\ pc = "done" /\ ~op.h.equal
  /\ op.h.changed = {1, 3}
  /\ trace = <<Ev("block", 2), Ev("mismatch", 3)>>

\* normalize has returned
NormalizeDone == pc = "done" /\ op.kind = "normalize"

\* C29: normalize(normalize(p)) = normalize(p) for every path string p;
\* normalize('') and normalize('.') are '', a lone root '/' is preserved, and
\* no other result ends with '/'.
C29_NormalizeIdempotent ==
  NormalizeDone =>
    /\ normalize(op.result) = op.result
    /\ op.arg \in {"", "."} => op.result = ""
    /\ op.arg = "/" => op.result = "/"
    /\ endsWith(op.result, "/") => op.result = "/"

\* the commondir is the working directory or lies inside it: its path
\* segments begin with the path segments of the working directory
InsideWorkdir(workdirPath, commondir) ==
  LET w == SelectSeq(SplitBy(properNormalize(workdirPath), "/"), LAMBDA seg : seg # "")
      c == SelectSeq(SplitBy(properNormalize(commondir), "/"), LAMBDA seg : seg # "")
  IN Len(w) <= Len(c) /\ SubSeq(c, 1, Len(w)) = w

\* C30: initExt with opts.commondir fails with 'commondir must be outside
\* repository' exactly when the commondir is the working directory or lies
\* inside it, and then before anything is created; every commondir outside
\* the working directory is accepted, also a sibling directory whose name
\* begins with the name of the working directory.
C30_CommondirOutside ==
  [][(pc = "idle" /\ op'.kind = "initExt") =>
     \A w \in Workdirs, c \in Commondirs :
       initExtCommondir(w, c) =>
         IF InsideWorkdir(w, c)
           THEN /\ pc' = "failed" /\ lastError' = COMMONDIR_ERROR
                /\ trace' = <<>>
                /\ UNCHANGED <<memVars, odbVars, storeExists, opened, workdir>>
           ELSE pc' # "failed" /\ storeExists' /\ opened']_vars

\* createCommit has passed its checks and has built the new commit from the
\* repository's index
CommitBuilt == pc = "idle" /\ pc' = "cc_writeCommit" /\ op'.kind = "createCommit"

\* C34: when createCommit is given an index whose processedMap holds a
\* FileInfo of a path that also exists in the tree of the HEAD commit, and the
\* path is not in deleteRelPaths, the tree of the new commit records the path
\* with the hash of the index, not with the hash of the HEAD commit; only the
\* paths absent from the index keep the hash of the HEAD commit.
C34_IndexWinsOverHead ==
  [][(CommitBuilt /\ head.hash # NoHash) =>
       \A p \in Paths \ index.deleteRelPaths :
         op'.commit.root[p] = IF index.processedMap[p] # 0
                                THEN index.processedMap[p]
                                ELSE getCommitByHead.root[p]]_vars

\* C35: the paths of the tree of the new commit are the paths of the tree of
\* the previous HEAD commit and the paths of index.processedMap, without
\* index.deleteRelPaths; a path both added and deleted is absent; the tree of
\* the previous HEAD commit is not changed by the removal.
C35_NewTreePaths ==
  [][(CommitBuilt /\ head.hash # NoHash) =>
       /\ TreePaths(op'.commit.root) =
            (TreePaths(getCommitByHead.root) \cup TreePaths(index.processedMap))
              \ index.deleteRelPaths
       /\ head.hash \in DOMAIN commitMap'
       /\ commitMap'[head.hash].root = getCommitByHead.root]_vars

\* a commit whose index both added and deleted a path that the previous HEAD
\* commit held has been created
C35_Witness ==
  /\ pc = "cc_writeCommit" /\ op.kind = "createCommit"
  /\ \E p \in op.idx.addRelPaths \cap op.idx.deleteRelPaths :
       /\ op.commit.root[p] = 0
       /\ Len(op.commit.parents) = 1
       /\ op.commit.parents[1] \in DOMAIN commitMap
       /\ commitMap[op.commit.parents[1]].root[p] # 0

\* C36: every commit created by createCommit has the parent list [h], h being
\* HEAD.hash immediately before the call, when a HEAD commit existed; the
\* first commit has an empty parent list; hence every parent hash of every
\* commit is a key of commitMap.
C36_ParentsAreHeadHash ==
  /\ [][(pc = "idle" /\ pc' = "cc_writeCommit") =>
          op'.commit.parents = IF head.hash # NoHash THEN <<head.hash>> ELSE <<>>]_vars
  /\ [](\A i \in 1..Len(commits) : \A k \in 1..Len(commits[i].parents) :
          commits[i].parents[k] \in DOMAIN commitMap)

\* C37: whenever HEAD is attached to a reference (the names are equal), the
\* hash of HEAD equals the hash of that reference in memory, after any
\* sequence of createCommit, checkout, createNewReference, deleteReference,
\* setHead and setHeadDetached.
C37_AttachedHeadEqualsReference ==
  pc \in {"idle", "done"} =>
    \A i \in 1..Len(references) :
      references[i].name = head.name => references[i].hash = head.hash

\* C38: createCommit while HEAD is detached advances only HEAD: the in-memory
\* reference list and the persisted reference records are the same before and
\* after every step of it, and no reference record named 'HEAD' is written
\* to the store.
C38_DetachedCommitMovesOnlyHead ==
  [][(op'.kind = "createCommit" /\ head.name = "HEAD" /\ head.hash # NoHash) =>
       /\ references' = references
       /\ odbRefs' = odbRefs
       /\ \A i \in 1..Len(odbRefs') : odbRefs'[i].name # "HEAD"]_vars

\* the events of the running checkout that changed a file of the working
\* directory
Mutations == {i \in 1..Len(trace) : trace[i].ev \in {"trash", "restore", "rewrite"}}

\* C39: within one checkout every path of the working directory is the
\* target of at most one mutation (trash, restore, rewrite); the modification
\* checks and the rewrites of the files present in both start only after all
\* trash and restore operations have finished; the log entry is appended only
\* after all of them completed.
C39_OneMutationPerPath ==
  op.kind = "checkout" =>
    /\ \A i, j \in Mutations : trace[i].path = trace[j].path => i = j
    /\ \A i, j \in Mutations :
         (trace[i].ev = "rewrite" /\ trace[j].ev \in {"trash", "restore"}) => j < i
    /\ pc = "co_rewrite" =>
         /\ \A p \in newFiles(op) : \E i \in Mutations : trace[i] = Ev("trash", p)
         /\ \A p \in deletedFiles(op) : \E i \in Mutations : trace[i] = Ev("restore", p)
         /\ op.pending \cap (newFiles(op) \cup deletedFiles(op)) = {}
    /\ HasEv("log") =>
         /\ trace[Len(trace)].ev = "log"
         /\ op.pending = {} /\ ~op.failed
         /\ \A p \in newFiles(op) \cup deletedFiles(op) : \E i \in Mutations : trace[i].path = p

\* a checkout that trashed or restored one file and rewrote another has
\* written its log entry
C39_Witness ==
  /\ pc = "done" /\ op.kind = "checkout"
  /\ HasEv("rewrite") /\ (HasEv("trash") \/ HasEv("restore"))
  /\ HasEv("log")

\* the commits reached from the commit of that hash through the parent links
RECURSIVE Reached(_, _)
Reached(h, n) ==
  IF n = 0 \/ h \notin DOMAIN commitMap THEN {}
  ELSE {h} \cup UNION {Reached(commitMap[h].parents[k], n - 1) : k \in 1..Len(commitMap[h].parents)}
\* the commits cb was invoked on
Called == {trace[i].path : i \in {k \in 1..Len(trace) : trace[k].ev = "cb"}}

\* C40: walkCommit(commit, cb) terminates for every commit of a finite
\* acyclic history and, before it returns, has invoked cb on the commits
\* reached from commit through the parent links.
C40_WalkCommitVisitsAncestors ==
  (pc = "walk") ~>
    (pc = "done" /\ op.kind = "walkCommit"
       /\ Called = Reached(trace[1].path, MaxCommits + 1))

\* copyFile has chosen: the copy runs, or copyFile has thrown
CopyChosen == op.kind = "copyFile" /\ op.io.valid /\ pc \in {"copying", "failed"} /\ lastError # "IoError"
\* what copyFile decides from
SameDrive == areFilesOnSameDrive(op.io.mountpoints, op.io.src, op.io.dst)
Filesystem == srcFilesystem(op.io.mountpoints, SameDrive, op.io.src)

\* C31: copyFile(src, dst) on an initialized IoContext selects the copy from
\* platform, same-drive, file system and size: macOS, same drive and APFS give
\* the reflink copy below 1 MB and the external 'cp -c' otherwise; Windows,
\* same drive and ReFS give the reflink copy below 1 MB, the block-clone
\* script otherwise, and the reflink copy when the script is missing; every
\* other combination on macOS, Windows or Linux gives the reflink-flagged
\* copy; any other platform fails with UnsupportedPlatform without copying.
C31_CopyStrategy ==
  CopyChosen =>
    IF op.io.platform = "darwin" /\ SameDrive /\ Filesystem = APFS
      THEN pc = "copying" /\ op.io.calls = <<IF op.io.size < MB1 THEN REFLINK ELSE CP_C>>
    ELSE IF op.io.platform = "win32" /\ SameDrive /\ Filesystem = REFS
      THEN pc = "copying" /\ op.io.calls = <<IF op.io.size < MB1 \/ ~op.io.script
                                               THEN REFLINK ELSE BLOCKCLONE>>
    ELSE IF op.io.platform \in {"darwin", "win32", "linux"}
      THEN pc = "copying" /\ op.io.calls = <<REFLINK>>
    ELSE pc = "failed" /\ lastError = "UnsupportedPlatform" /\ op.io.calls = <<>>

\* a file of 1 MB on an APFS drive of a Mac is being cloned with cp -c
C31_Witness ==
  /\ CopyChosen /\ op.io.platform = "darwin" /\ SameDrive /\ Filesystem = APFS
  /\ op.io.size = MB1 /\ op.io.calls = <<CP_C>>

\* performWriteLockChecks has settled
LockCheckEnded == op.kind = "performWriteLockChecks" /\ pc \in {"done", "failed"}
\* the paths of relPaths that the listing of lsof holds a handle with access
\* W, w or u for
Offending ==
  {op.io.relPaths[i] : i \in {k \in 1..Len(op.io.relPaths) :
     \E n \in 1..Len(op.io.listing) :
       /\ op.io.listing[n].filepath = op.io.dir \o "/" \o op.io.relPaths[k]
       /\ op.io.listing[n].access \in {"W", "w", "u"}}}

\* C32: on macOS and Linux performWriteLockChecks(dir, relPaths) rejects with
\* the composite write-lock error exactly when the listing of the open-files
\* utility holds, for some path of relPaths, a handle with lock type W, w or
\* u; it resolves in every other case in which the utility ran to completion,
\* whatever its exit status and whatever handles exist on other paths or with
\* read-only lock types; the composite error carries the errors of all
\* offending paths.
C32_WriteLockChecks ==
  LockCheckEnded =>
    IF Offending # {}
      THEN /\ pc = "failed" /\ lastError = "AggregateError"
           /\ {op.io.errors[i].relPath : i \in 1..Len(op.io.errors)} = Offending
      ELSE pc = "done"

\* ignored(p) has answered
IgnoredAnswered == pc = "done" /\ op.kind = "ignored"
\* p matches one of the ignore patterns of the manager
MatchesIgnore ==
  IF op.ig.manager = "glob"
    THEN \E n \in 1..Len(op.ig.patterns) :
           leadingBangs(op.ig.patterns[n]) = 0 /\ globMatch(op.ig.patterns[n], op.arg)
    ELSE \E n \in 1..Len(op.ig.ignores) : regexExec(op.ig.ignores[n], op.arg)
\* p matches one of the include patterns: those given with one leading '!'
MatchesInclude ==
  IF op.ig.manager = "glob"
    THEN \E n \in 1..Len(op.ig.patterns) :
           /\ leadingBangs(op.ig.patterns[n]) = 1
           /\ globMatch(SubSeq(op.ig.patterns[n], 2, Len(op.ig.patterns[n])), op.arg)
    ELSE \E n \in 1..Len(op.ig.includes) : regexExec(op.ig.includes[n], op.arg)

\* C33: ignored(p) is true exactly when p matches at least one ignore pattern
\* and matches no include pattern (a pattern given with a single leading
\* '!'); in particular a '!' line of the user ignore file makes ignored(p)
\* false for a path that a built-in pattern matches.
C33_IgnoredIffNoInclude ==
  IgnoredAnswered => (op.ig.ignored <=> (MatchesIgnore /\ ~MatchesInclude))

====
